---- MODULE Spec2Model ----
(***************************************************************************)
(* A model of the DKIM verifier of src/src/dkim.c: the signature tag       *)
(* parser, the key record parser, the body and header canonicalizers, the  *)
(* signature elision and the check operation.                              *)
(*                                                                         *)
(* Bytes are one-character strings; the control bytes have the names       *)
(* below.  A C string is a sequence of bytes, its terminating NUL is the   *)
(* position one past its length.  A pointer that may be NULL is a sequence *)
(* of length zero (NULL) or one (the value pointed to).                    *)
(***************************************************************************)
EXTENDS Integers, Sequences, FiniteSets, TLC

VARIABLES
    sig,        \* rspamd_create_dkim_context: the signature value parsed
    create,     \* rspamd_create_dkim_context: its locals, context and result
    txt,        \* rspamd_dkim_dns_cb: the DNS reply (code, TXT records)
    keycb,      \* rspamd_dkim_dns_cb / rspamd_dkim_parse_key: locals, handler calls
    body,       \* rspamd_dkim_canonize_body: the message bytes and body span
    canon,      \* rspamd_dkim_canonize_body: locals and the bytes fed to body_hash
    elide,      \* rspamd_dkim_signature_update: the two signature headers compared
    task,       \* rspamd_dkim_check: the message (task) and the verifier context
    chk         \* rspamd_dkim_check: locals, hash feeds and verdict

vars == <<sig, create, txt, keycb, body, canon, elide, task, chk>>

-----------------------------------------------------------------------------
(* Bytes and the C library helpers the code calls.                         *)

NUL == "NUL"
CR == "CR"
LF == "LF"
SP == "SP"
HT == "HT"
FF == "FF"
\* a byte read outside the object it belongs to
OOB == "OOB"

CRLF == <<CR, LF>>

\* g_ascii_isspace: space, form feed, newline, carriage return, tab
g_ascii_isspace(ch) == ch \in {SP, HT, LF, CR, FF}

UpperAlpha == <<"A","B","C","D","E","F","G","H","I","J","K","L","M",
                "N","O","P","Q","R","S","T","U","V","W","X","Y","Z">>
LowerAlpha == <<"a","b","c","d","e","f","g","h","i","j","k","l","m",
                "n","o","p","q","r","s","t","u","v","w","x","y","z">>
Digits == <<"0","1","2","3","4","5","6","7","8","9">>

IndexOf(s, ch) == IF \E i \in 1..Len(s) : s[i] = ch
                  THEN CHOOSE i \in 1..Len(s) : s[i] = ch
                  ELSE 0

g_ascii_tolower(ch) == IF IndexOf(UpperAlpha, ch) > 0
                       THEN LowerAlpha[IndexOf(UpperAlpha, ch)]
                       ELSE ch

LowerStr(s) == [i \in 1..Len(s) |-> g_ascii_tolower(s[i])]

\* g_ascii_strcasecmp (a, b) == 0, g_ascii_strncasecmp over equal lengths
StrCaseEq(a, b) == LowerStr(a) = LowerStr(b)

\* *(s + i) for a NUL-terminated string s, positions counted from 1
At(s, i) == IF i >= 1 /\ i <= Len(s) THEN s[i]
            ELSE IF i = Len(s) + 1 THEN NUL ELSE OOB

\* the bytes s[from .. from + n - 1] of a NUL-terminated string
Span(s, from, n) == [i \in 1..n |-> At(s, from + i - 1)]

\* the bytes of s before its first NUL
UntilNul(s) ==
    LET stops == {i \in 1..Len(s) : s[i] \in {NUL, OOB}}
    IN IF stops = {} THEN s
       ELSE SubSeq(s, 1, (CHOOSE i \in stops : \A j \in stops : i <= j) - 1)

\* rspamd_strlcpy (dst, src + from, len + 1): at most len bytes, cut at the NUL
rspamd_strlcpy(s, from, len) == UntilNul(Span(s, from, len))

RECURSIVE StripLeft(_)
StripLeft(s) == IF s # <<>> /\ g_ascii_isspace(Head(s)) THEN StripLeft(Tail(s)) ELSE s

RECURSIVE StripRight(_)
StripRight(s) == IF s # <<>> /\ g_ascii_isspace(s[Len(s)])
                 THEN StripRight(SubSeq(s, 1, Len(s) - 1)) ELSE s

g_strstrip(s) == StripRight(StripLeft(s))

\* rspamd_strtoul (param, len, &val): decimal digits only
RECURSIVE StrToUlFrom(_, _)
StrToUlFrom(s, acc) ==
    IF s = <<>> THEN [ok |-> TRUE, val |-> acc]
    ELSE IF IndexOf(Digits, Head(s)) = 0 THEN [ok |-> FALSE, val |-> 0]
    ELSE StrToUlFrom(Tail(s), acc * 10 + (IndexOf(Digits, Head(s)) - 1))

rspamd_strtoul(s) == StrToUlFrom(s, 0)

\* mime_base64_rank of glib: the place in the alphabet, '=' ranks 0, 255 otherwise
B64Alphabet == UpperAlpha \o LowerAlpha \o Digits \o <<"+", "/">>

mime_base64_rank(ch) == IF ch = "=" THEN 0
                        ELSE IF IndexOf(B64Alphabet, ch) > 0
                        THEN IndexOf(B64Alphabet, ch) - 1
                        ELSE 255

\* One iteration of the loop of g_base64_decode_step; st is
\* [text, inptr, v, i, last0, last1, out].
Base64Step(st) ==
    IF st.inptr > Len(st.text) THEN st
    ELSE LET ch == st.text[st.inptr]
             rank == mime_base64_rank(ch)
         IN IF rank = 255 THEN [st EXCEPT !.inptr = st.inptr + 1]
            ELSE LET v == (st.v * 64 + rank) % 16777216
                     i == st.i + 1
                     o1 == <<v \div 65536>>
                     o2 == IF st.last0 # "=" THEN <<(v \div 256) % 256>> ELSE <<>>
                     o3 == IF ch # "=" THEN <<v % 256>> ELSE <<>>
                 IN [st EXCEPT !.inptr = st.inptr + 1, !.v = v,
                               !.i = IF i = 4 THEN 0 ELSE i,
                               !.last0 = ch, !.last1 = st.last0,
                               !.out = IF i = 4 THEN st.out \o o1 \o o2 \o o3
                                       ELSE st.out]

\* n iterations of the loop
RECURSIVE Base64Steps(_, _)
Base64Steps(st, n) ==
    IF n = 0 THEN st
    ELSE IF n = 1 THEN Base64Step(st)
    ELSE \* the first half is bound as a value, so it is computed once
         CHOOSE r \in {IF half.inptr > Len(half.text) THEN half
                        ELSE Base64Steps(half, n - (n \div 2)) :
                        half \in {Base64Steps(st, n \div 2)}} : TRUE

\* g_base64_decode_inplace (text, &len): text of one byte or less is left as it
\* is and len keeps the value the caller gave it
g_base64_decode_inplace(text, len) ==
    \* the text and the decoded bytes are bound as values, so each is computed once
    CHOOSE d \in
        UNION {IF Len(t) <= 1 THEN {[data |-> t, len |-> len]}
               ELSE {[data |-> out, len |-> Len(out)] :
                        out \in {Base64Steps([text |-> t, inptr |-> 1, v |-> 0, i |-> 0,
                                              last0 |-> NUL, last1 |-> NUL, out |-> <<>>],
                                             Len(t)).out}} :
               t \in {text}} : TRUE

-----------------------------------------------------------------------------
(* The parsers of the signature tags, lines 72-289.  Each takes the        *)
(* context, the signature string, the place of the value and its length,   *)
(* and returns the context, whether it accepted, and the error kind.       *)

Chars_rsa_sha1 == <<"r","s","a","-","s","h","a","1">>
Chars_rsa_sha256 == <<"r","s","a","-","s","h","a","2","5","6">>
Chars_simple == <<"s","i","m","p","l","e">>
Chars_relaxed == <<"r","e","l","a","x","e","d">>
Chars_from == <<"f","r","o","m">>
\* DKIM_DNSKEYNAME
Chars_domainkey == <<"_","d","o","m","a","i","n","k","e","y">>

Accept(ctx) == [ok |-> TRUE, ctx |-> ctx, err |-> "NONE"]
Refuse(ctx, kind) == [ok |-> FALSE, ctx |-> ctx, err |-> kind]

rspamd_dkim_parse_signature(ctx, s, param, len) ==
    LET d == g_base64_decode_inplace(rspamd_strlcpy(s, param, len), len)
    IN Accept([ctx EXCEPT !.b = <<d.data>>, !.blen = d.len])

rspamd_dkim_parse_signalg(ctx, s, param, len) ==
    IF len = 8 /\ Span(s, param, len) = Chars_rsa_sha1
    THEN Accept([ctx EXCEPT !.sig_alg = "RSASHA1"])
    ELSE IF len = 10 /\ Span(s, param, len) = Chars_rsa_sha256
    THEN Accept([ctx EXCEPT !.sig_alg = "RSASHA256"])
    ELSE Refuse(ctx, "INVALID_A")

rspamd_dkim_parse_domain(ctx, s, param, len) ==
    Accept([ctx EXCEPT !.domain = <<rspamd_strlcpy(s, param, len)>>])

\* the offset of the first '/' among the len bytes, len when there is none
RECURSIVE SlashAt(_, _, _, _)
SlashAt(s, param, len, sl) ==
    IF sl = len \/ At(s, param + sl) = "/" THEN sl
    ELSE SlashAt(s, param, len, sl + 1)

rspamd_dkim_parse_canonalg(ctx, s, param, len) ==
    LET sl == SlashAt(s, param, len, 0)
    IN IF sl = len
       THEN IF len = 6 /\ Span(s, param, len) = Chars_simple
            THEN Accept([ctx EXCEPT !.header_canon_type = "SIMPLE"])
            ELSE IF len = 7 /\ Span(s, param, len) = Chars_relaxed
            THEN Accept([ctx EXCEPT !.header_canon_type = "RELAXED"])
            ELSE Refuse(ctx, "INVALID_A")
       ELSE LET hdr == IF sl = 6 /\ Span(s, param, sl) = Chars_simple THEN "SIMPLE"
                       ELSE IF sl = 7 /\ Span(s, param, sl) = Chars_relaxed THEN "RELAXED"
                       ELSE "ERR"
                blen == len - (sl + 1)
                slash == param + sl + 1
                c1 == IF hdr = "ERR" THEN ctx ELSE [ctx EXCEPT !.header_canon_type = hdr]
            IN IF hdr = "ERR" THEN Refuse(ctx, "INVALID_A")
               ELSE IF blen = 6 /\ Span(s, slash, blen) = Chars_simple
               THEN Accept([c1 EXCEPT !.body_canon_type = "SIMPLE"])
               ELSE IF blen = 7 /\ Span(s, slash, blen) = Chars_relaxed
               THEN Accept([c1 EXCEPT !.body_canon_type = "RELAXED"])
               ELSE Refuse(c1, "INVALID_A")

rspamd_dkim_parse_ignore(ctx, s, param, len) == Accept(ctx)

rspamd_dkim_parse_selector(ctx, s, param, len) ==
    Accept([ctx EXCEPT !.selector = <<rspamd_strlcpy(s, param, len)>>])

\* The loop of rspamd_dkim_parse_hdrlist: p and c are offsets into the value,
\* hl is the list as g_list_prepend builds it (newest first).
RECURSIVE HdrlistLoop(_, _, _, _, _, _, _)
HdrlistLoop(s, param, len, p, c, hl, from_found) ==
    IF p > len THEN [hlist |-> hl, from_found |-> from_found]
    ELSE \* the frame after the iteration is bound as a value, so it is computed once
         CHOOSE r \in
             {HdrlistLoop(s, param, len, n.p, n.c, n.hl, n.from_found) :
                 n \in IF (At(s, param + p) = ":" \/ p = len) /\ p - c > 0
                       THEN {[p |-> p + 1, c |-> p + 1, hl |-> <<h>> \o hl,
                              from_found |-> from_found \/ StrCaseEq(h, Chars_from)] :
                                h \in {g_strstrip(rspamd_strlcpy(s, param + c, p - c))}}
                       ELSE {[p |-> p + 1, c |-> c, hl |-> hl,
                              from_found |-> from_found]}} : TRUE

Reverse(s) == [i \in 1..Len(s) |-> s[Len(s) + 1 - i]]

rspamd_dkim_parse_hdrlist(ctx, s, param, len) ==
    LET r == HdrlistLoop(s, param, len, 0, 0, ctx.hlist, FALSE)
    IN IF r.hlist = <<>> THEN Refuse(ctx, "INVALID_H")
       ELSE IF ~r.from_found THEN Refuse([ctx EXCEPT !.hlist = r.hlist], "INVALID_H")
       ELSE Accept([ctx EXCEPT !.hlist = Reverse(r.hlist)])

rspamd_dkim_parse_version(ctx, s, param, len) ==
    IF len # 1 \/ At(s, param) # "1" THEN Refuse(ctx, "VERSION")
    ELSE Accept([ctx EXCEPT !.ver = 1])

rspamd_dkim_parse_timestamp(ctx, s, param, len) ==
    LET r == rspamd_strtoul(Span(s, param, len))
    IN IF ~r.ok THEN Refuse(ctx, "UNKNOWN")
       ELSE Accept([ctx EXCEPT !.timestamp = r.val])

rspamd_dkim_parse_expiration(ctx, s, param, len) ==
    LET r == rspamd_strtoul(Span(s, param, len))
    IN IF ~r.ok THEN Refuse(ctx, "UNKNOWN")
       ELSE Accept([ctx EXCEPT !.expiration = r.val])

rspamd_dkim_parse_bodyhash(ctx, s, param, len) ==
    LET d == g_base64_decode_inplace(rspamd_strlcpy(s, param, len), len)
    IN Accept([ctx EXCEPT !.bh = <<d.data>>, !.bhlen = d.len])

rspamd_dkim_parse_bodylength(ctx, s, param, len) ==
    LET r == rspamd_strtoul(Span(s, param, len))
    IN IF ~r.ok THEN Refuse(ctx, "INVALID_L")
       ELSE Accept([ctx EXCEPT !.len = r.val])

\* parser_funcs[param] (new, c, len, err)
parser_funcs(param, ctx, s, c, len) ==
    CASE param = "SIGNATURE" -> rspamd_dkim_parse_signature(ctx, s, c, len)
      [] param = "SIGNALG" -> rspamd_dkim_parse_signalg(ctx, s, c, len)
      [] param = "DOMAIN" -> rspamd_dkim_parse_domain(ctx, s, c, len)
      [] param = "CANONALG" -> rspamd_dkim_parse_canonalg(ctx, s, c, len)
      [] param = "QUERYMETHOD" -> rspamd_dkim_parse_ignore(ctx, s, c, len)
      [] param = "SELECTOR" -> rspamd_dkim_parse_selector(ctx, s, c, len)
      [] param = "HDRLIST" -> rspamd_dkim_parse_hdrlist(ctx, s, c, len)
      [] param = "VERSION" -> rspamd_dkim_parse_version(ctx, s, c, len)
      [] param = "IDENTITY" -> rspamd_dkim_parse_ignore(ctx, s, c, len)
      [] param = "TIMESTAMP" -> rspamd_dkim_parse_timestamp(ctx, s, c, len)
      [] param = "EXPIRATION" -> rspamd_dkim_parse_expiration(ctx, s, c, len)
      [] param = "COPIEDHDRS" -> rspamd_dkim_parse_ignore(ctx, s, c, len)
      [] param = "BODYHASH" -> rspamd_dkim_parse_bodyhash(ctx, s, c, len)
      [] param = "BODYLENGTH" -> rspamd_dkim_parse_bodylength(ctx, s, c, len)

-----------------------------------------------------------------------------
(* rspamd_create_dkim_context, lines 298-559: the state machine of the     *)
(* tags, one loop iteration at a time, and the checks after the loop.      *)

SHA1_DIGEST_LEN == 20
SHA256_DIGEST_LEN == 32

\* memory_pool_alloc0 and lines 316-319
NewContext ==
    [b |-> <<>>, blen |-> 0, bh |-> <<>>, bhlen |-> 0, domain |-> <<>>,
     selector |-> <<>>, ver |-> 0, hlist |-> <<>>, sig_alg |-> "UNKNOWN",
     header_canon_type |-> "SIMPLE", body_canon_type |-> "SIMPLE", len |-> 0,
     timestamp |-> 0, expiration |-> 0, dns_key |-> <<>>,
     body_hash |-> "NONE", headers_hash |-> "NONE"]

\* lines 320-326
CreateStart ==
    [p |-> 1, c |-> 1, state |-> "SKIP_SPACES", next_state |-> "TAG", taglen |-> 0,
     tag |-> 0, param |-> "UNKNOWN", new |-> NewContext, err |-> "NONE",
     ret |-> "LOOP", now |-> 0]

SigEnd(s) == Len(s) + 1

\* while (*p && g_ascii_isspace (*p)) p ++;
RECURSIVE SkipSpacesBeforeEq(_, _)
SkipSpacesBeforeEq(s, p) ==
    IF At(s, p) # NUL /\ g_ascii_isspace(At(s, p)) THEN SkipSpacesBeforeEq(s, p + 1)
    ELSE p

\* case DKIM_STATE_TAG
StateTag(s, f) ==
    IF g_ascii_isspace(At(s, f.p))
    THEN LET q == SkipSpacesBeforeEq(s, f.p)
         IN IF At(s, q) # "="
            THEN [f EXCEPT !.taglen = f.p - f.c, !.p = q, !.err = "UNKNOWN",
                           !.state = "ERROR"]
            ELSE [f EXCEPT !.taglen = f.p - f.c, !.state = "SKIP_SPACES",
                           !.next_state = "AFTER_TAG", !.param = "UNKNOWN",
                           !.p = q + 1, !.tag = f.c]
    ELSE IF At(s, f.p) = "="
    THEN [f EXCEPT !.state = "SKIP_SPACES", !.next_state = "AFTER_TAG",
                   !.param = "UNKNOWN", !.p = f.p + 1, !.tag = f.c]
    ELSE [f EXCEPT !.taglen = f.taglen + 1, !.p = f.p + 1]

\* switch (*tag) of the one-letter tags
SimpleTag(ch) ==
    CASE ch = "v" -> "VERSION"
      [] ch = "a" -> "SIGNALG"
      [] ch = "b" -> "SIGNATURE"
      [] ch = "c" -> "CANONALG"
      [] ch = "d" -> "DOMAIN"
      [] ch = "h" -> "HDRLIST"
      [] ch = "i" -> "IDENTITY"
      [] ch = "l" -> "BODYLENGTH"
      [] ch = "q" -> "QUERYMETHOD"
      [] ch = "s" -> "SELECTOR"
      [] ch = "t" -> "TIMESTAMP"
      [] ch = "x" -> "EXPIRATION"
      [] ch = "z" -> "COPIEDHDRS"
      [] OTHER -> "UNKNOWN"

\* case DKIM_STATE_AFTER_TAG
StateAfterTag(s, f) ==
    LET param == IF f.taglen = 1 THEN SimpleTag(At(s, f.tag))
                 ELSE IF f.taglen = 2 /\ At(s, f.tag) = "b" /\ At(s, f.tag + 1) = "h"
                 THEN "BODYHASH"
                 ELSE "UNKNOWN"
    IN IF param = "UNKNOWN"
       THEN [f EXCEPT !.err = "UNKNOWN", !.state = "ERROR"]
       ELSE [f EXCEPT !.param = param, !.state = "SKIP_SPACES",
                      !.next_state = "VALUE"]

\* case DKIM_STATE_VALUE
StateValue(s, f) ==
    IF At(s, f.p) = ";"
    THEN IF f.param = "UNKNOWN" THEN [f EXCEPT !.state = "ERROR"]
         ELSE LET r == parser_funcs(f.param, f.new, s, f.c, f.p - f.c)
              IN IF ~r.ok
                 THEN [f EXCEPT !.new = r.ctx, !.err = r.err, !.state = "ERROR"]
                 ELSE [f EXCEPT !.new = r.ctx, !.state = "SKIP_SPACES",
                                !.next_state = "TAG", !.p = f.p + 1, !.taglen = 0]
    ELSE IF f.p = SigEnd(s)
    THEN IF f.param = "UNKNOWN" THEN [f EXCEPT !.state = "ERROR"]
         ELSE LET r == parser_funcs(f.param, f.new, s, f.c, f.p - f.c + 1)
              IN IF ~r.ok
                 THEN [f EXCEPT !.new = r.ctx, !.err = r.err, !.state = "ERROR"]
                 ELSE [f EXCEPT !.new = r.ctx, !.p = f.p + 1]
    ELSE [f EXCEPT !.p = f.p + 1]

\* the state with a white space byte left where it is
StateSkipSpaces_Stuck(s, f) ==
    IF g_ascii_isspace(At(s, f.p)) THEN f
    ELSE [f EXCEPT !.c = f.p, !.state = f.next_state]

\* case DKIM_STATE_SKIP_SPACES
StateSkipSpaces(s, f) ==
    IF g_ascii_isspace(At(s, f.p)) THEN [f EXCEPT !.p = f.p + 1]
    ELSE [f EXCEPT !.c = f.p, !.state = f.next_state]

\* case DKIM_STATE_ERROR
StateError(s, f) == [f EXCEPT !.ret = "NULL"]

\* one iteration of while (p <= end), lines 327-480
CreateLoopStep(s, f) ==
    CASE f.state = "TAG" -> StateTag(s, f)
      [] f.state = "AFTER_TAG" -> StateAfterTag(s, f)
      [] f.state = "VALUE" -> StateValue(s, f)
      [] f.state = "SKIP_SPACES" -> StateSkipSpaces(s, f)
      [] f.state = "ERROR" -> StateError(s, f)

InLoop(s, f) == f.ret = "LOOP" /\ f.p <= SigEnd(s)

Fail(f, kind) == [f EXCEPT !.err = kind, !.ret = "NULL"]

\* the format arguments in the order domain, DKIM_DNSKEYNAME, selector
\* rspamd_snprintf (new->dns_key, taglen, "%s.%s.%s", selector, DKIM_DNSKEYNAME, domain)
DnsKeyName(selector, domain) == selector \o <<".">> \o Chars_domainkey \o <<".">> \o domain

\* lines 542-553: a hash of the kind of the algorithm, nothing fed yet
g_checksum_new(sig_alg) ==
    [type |-> IF sig_alg = "RSASHA1" THEN "SHA1" ELSE "SHA256", fed |-> <<>>]

\* lines 482-558, with the value time (NULL) returned
CreateValidate(f, now) ==
    LET new == f.new
        g == [f EXCEPT !.now = now]
    IN IF new.b = <<>> THEN Fail(f, "EMPTY_B")
       ELSE IF new.bh = <<>> THEN Fail(f, "EMPTY_BH")
       ELSE IF new.domain = <<>> THEN Fail(f, "EMPTY_D")
       ELSE IF new.selector = <<>> THEN Fail(f, "EMPTY_S")
       ELSE IF new.ver = 0 THEN Fail(f, "EMPTY_V")
       ELSE IF new.hlist = <<>> THEN Fail(f, "EMPTY_H")
       ELSE IF new.sig_alg = "UNKNOWN" THEN Fail(f, "EMPTY_S")
       ELSE IF new.sig_alg = "RSASHA1" /\ new.bhlen # SHA1_DIGEST_LEN
       THEN Fail(f, "BADSIG")
       ELSE IF new.sig_alg = "RSASHA256" /\ new.bhlen # SHA256_DIGEST_LEN
       THEN Fail(f, "BADSIG")
       ELSE IF new.timestamp # 0 /\ new.timestamp > now THEN Fail(g, "FUTURE")
       ELSE IF new.expiration # 0 /\ new.expiration < now THEN Fail(g, "EXPIRED")
       ELSE IF new.sig_alg \notin {"RSASHA1", "RSASHA256"} THEN Fail(g, "BADSIG")
       ELSE [g EXCEPT !.ret = "CTX",
                      !.new = [new EXCEPT
                                 !.dns_key = <<DnsKeyName(new.selector[1], new.domain[1])>>,
                                 !.body_hash = g_checksum_new(new.sig_alg),
                                 !.headers_hash = g_checksum_new(new.sig_alg)]]

\* n iterations of the loop, none once it has ended
RECURSIVE CreateLoopSteps(_, _, _)
CreateLoopSteps(s, f, n) ==
    IF n = 0 \/ ~InLoop(s, f) THEN f
    ELSE IF n = 1 THEN CreateLoopStep(s, f)
    ELSE LET half == CreateLoopSteps(s, f, n \div 2)
         IN IF ~InLoop(s, half) THEN half
            ELSE CreateLoopSteps(s, half, n - (n \div 2))

\* The whole call.  An iteration moves p or leaves a state that the next one
\* leaves by moving p, so 3 * (strlen (sig) + 2) iterations end the loop.
rspamd_create_dkim_context(s, now) ==
    LET f == CreateLoopSteps(s, CreateStart, 3 * (Len(s) + 2))
    IN IF f.ret = "NULL" THEN f ELSE CreateValidate(f, now)

-----------------------------------------------------------------------------
(* The signatures given to rspamd_create_dkim_context.                     *)

\* the largest value time (NULL) returns
MaxNow == 3
\* the number of items that follow the required tags in a signature
MaxExtra == 1

Clock == 1..MaxNow

RECURSIVE Rep(_, _)
Rep(s, n) == IF n = 0 THEN <<>> ELSE s \o Rep(s, n - 1)

RECURSIVE Join(_, _)
Join(items, sep) == IF items = <<>> THEN <<>>
                    ELSE IF Len(items) = 1 THEN items[1]
                    ELSE items[1] \o sep \o Join(Tail(items), sep)

\* base64 text of n bytes, n = 3k + 2
B64OfLen(n) == Rep(<<"A","A","A","A">>, n \div 3) \o <<"A","A","A","=">>

ReqTags == <<"v", "a", "b", "bh", "d", "s", "h">>

Item_a(alg) == IF alg = "RSASHA1" THEN <<"a","=","r","s","a","-","s","h","a","1">> ELSE <<"a","=","r","s","a","-","s","h","a","2","5","6">>

ReqItem(tag, alg) ==
    CASE tag = "v" -> <<"v","=","1">>
      [] tag = "a" -> Item_a(alg)
      [] tag = "b" -> <<"b","=","A","A","A","A">>
      [] tag = "bh" -> <<"b","h","=">> \o B64OfLen(IF alg = "RSASHA1" THEN SHA1_DIGEST_LEN
                                                   ELSE SHA256_DIGEST_LEN)
      [] tag = "d" -> <<"d","=","e","x">>
      [] tag = "s" -> <<"s","=","k">>
      [] tag = "h" -> <<"h","=","f","r","o","m">>

\* the items of the required tags in present, in the order of ReqTags
ReqItems(present, alg) ==
    LET tags == SelectSeq(ReqTags, LAMBDA t : t \in present)
    IN [i \in 1..Len(tags) |-> ReqItem(tags[i], alg)]

ItemSep == <<";", SP>>
Terminators == {<<>>, <<";">>}

TagSet == {ReqTags[i] : i \in 1..Len(ReqTags)}

\* signatures that lack at most two of the required tags
PresenceSigs ==
    {Join(ReqItems(present, alg), ItemSep) \o term :
        present \in {q \in SUBSET TagSet : Cardinality(q) >= 5},
        alg \in {"RSASHA1", "RSASHA256"}, term \in Terminators}

\* signatures that lack exactly the required tag t, the last item one that
\* end-of-input does not change
LacksOnly(t) ==
    {Join(ReqItems(TagSet \ {t}, alg), ItemSep) \o <<";">> :
        alg \in {"RSASHA1", "RSASHA256"}}

ExtraItems ==
    {<<"t","=","2">>,
     <<"t","=","9">>,
     <<"x","=","2">>,
     <<"x","=","0">>,
     <<"c","=","r","e","l","a","x","e","d","/","r","e","l","a","x","e","d">>,
     <<"l","=","5">>,
     <<"v","=","1">>,
     <<"h","=","T","o",":","F","r","o","m">>,
     <<"h","=","t","o">>,
     <<"a","=","r","s","a","-","s","h","a","2","5","6">>,
     <<"d","=","y","y">>,
     <<"b","=","B","B">>,
     <<"k","=","1">>,
     <<"b","h","=">> \o B64OfLen(SHA256_DIGEST_LEN)}

\* two items that together change what the required tags gave
PairedExtras ==
    {<<<<"a","=","r","s","a","-","s","h","a","2","5","6">>,
       <<"b","h","=">> \o B64OfLen(SHA256_DIGEST_LEN)>>,
     <<<<"t","=","2">>, <<"x","=","2">>>>,
     <<<<"t","=","2">>, <<"t","=","9">>>>,
     <<<<"x","=","0">>, <<"t","=","2">>>>,
     <<<<"h","=","T","o",":","F","r","o","m">>, <<"v","=","1">>>>,
     <<<<"h","=","t","o">>, <<"h","=","T","o",":","F","r","o","m">>>>,
     <<<<"d","=","y","y">>, <<"b","=","B","B">>>>,
     <<<<"c","=","r","e","l","a","x","e","d","/","r","e","l","a","x","e","d">>,
       <<"l","=","5">>>>}

ExtraSeqs == UNION {[1..n -> ExtraItems] : n \in 0..MaxExtra} \cup PairedExtras

\* signatures with every required tag, followed by optional and repeated tags
ExtendedSigs ==
    {Join(ReqItems(TagSet, "RSASHA1") \o ex, ItemSep) \o <<";">> : ex \in ExtraSeqs}

\* items that repeat a required tag with a value the tag's parser accepts
RepeatItems ==
    {<<"v","=","1">>, <<"h","=","T","o",":","F","r","o","m">>, <<"d","=","y","y">>,
     <<"b","=","B","B">>}

RepeatedSigs ==
    {Join(ReqItems(TagSet, "RSASHA1") \o ex, ItemSep) \o <<";">> :
        ex \in {q \in ExtraSeqs : Len(q) = 2 /\ \A i \in 1..Len(q) :
                                     q[i] \in RepeatItems}}

SigInputs == PresenceSigs \cup ExtendedSigs

-----------------------------------------------------------------------------
(* The specification of rspamd_create_dkim_context.                        *)

\* the value of the variables of an operation that is not running
Idle == <<>>

InitCreate ==
    /\ sig \in SigInputs
    /\ create = CreateStart
    /\ txt = Idle /\ keycb = Idle /\ body = Idle /\ canon = Idle
    /\ elide = Idle /\ task = Idle /\ chk = Idle

CreateFrame == UNCHANGED <<sig, txt, keycb, body, canon, elide, task, chk>>

TagStep ==
    /\ InLoop(sig, create) /\ create.state = "TAG"
    /\ create' = CreateLoopStep(sig, create)
    /\ CreateFrame

AfterTagStep ==
    /\ InLoop(sig, create) /\ create.state = "AFTER_TAG"
    /\ create' = CreateLoopStep(sig, create)
    /\ CreateFrame

ValueStep ==
    /\ InLoop(sig, create) /\ create.state = "VALUE"
    /\ create' = CreateLoopStep(sig, create)
    /\ CreateFrame

SkipSpacesStep ==
    /\ InLoop(sig, create) /\ create.state = "SKIP_SPACES"
    /\ create' = CreateLoopStep(sig, create)
    /\ CreateFrame

ErrorStep ==
    /\ InLoop(sig, create) /\ create.state = "ERROR"
    /\ create' = CreateLoopStep(sig, create)
    /\ CreateFrame

\* the loop has ended: the validity checks, with the time read at line 526
Validate ==
    /\ create.ret = "LOOP" /\ create.p > SigEnd(sig)
    /\ \E now \in Clock : create' = CreateValidate(create, now)
    /\ CreateFrame

NextCreate == TagStep \/ AfterTagStep \/ ValueStep \/ SkipSpacesStep \/ ErrorStep
              \/ Validate

SpecCreate == InitCreate /\ [][NextCreate]_vars

-----------------------------------------------------------------------------
(* Claims about rspamd_create_dkim_context.                                *)

EmptyKind(t) ==
    CASE t = "v" -> "EMPTY_V"
      [] t = "b" -> "EMPTY_B"
      [] t = "bh" -> "EMPTY_BH"
      [] t = "d" -> "EMPTY_D"
      [] t = "s" -> "EMPTY_S"
      [] t = "h" -> "EMPTY_H"
      [] OTHER -> "EMPTY_A"

CreateReturned == create.ret \in {"NULL", "CTX"}

\* C3: a signature that lacks exactly one of the required tags v, a, b, bh, d,
\* s, h, the others present and valid, yields no context and the EMPTY kind of
\* the missing tag; a missing a is reported by a kind that is not the kind of a
\* tag that is present.
C3_TagParserCompleteness ==
    \A t \in TagSet :
        (sig \in LacksOnly(t) /\ CreateReturned) =>
            /\ create.ret = "NULL"
            /\ IF t = "a"
               THEN create.err \notin {"NONE"} \cup {EmptyKind(u) : u \in TagSet \ {"a"}}
               ELSE create.err = EmptyKind(t)

DigestLen(alg) == IF alg = "RSASHA1" THEN 20 ELSE 32

\* the signature s has a tag of the one-letter name
HasTag(s, name) ==
    \E i \in 1..Len(s) : /\ s[i] = name /\ At(s, i + 1) = "="
                         /\ (i = 1 \/ s[i - 1] \in {SP, ";"})

\* C4: every context that create_context returns has b, bh, domain and selector
\* set, version 1, a signed-header list that is not empty and contains from in
\* any letter case, a signing algorithm rsa-sha1 or rsa-sha256, a bh of that
\* algorithm's digest length, a timestamp not after the clock when the
\* signature has a t tag, an expiration not before the clock when it has an x
\* tag, and the DNS name <selector>._domainkey.<domain>; also when tags are
\* repeated.
C4_PostParseInvariant ==
    create.ret = "CTX" =>
        LET new == create.new
        IN /\ new.b # <<>> /\ new.bh # <<>> /\ new.domain # <<>> /\ new.selector # <<>>
           /\ new.ver = 1
           /\ new.hlist # <<>>
           /\ \E i \in 1..Len(new.hlist) : LowerStr(new.hlist[i]) = <<"f","r","o","m">>
           /\ new.sig_alg \in {"RSASHA1", "RSASHA256"}
           /\ new.bhlen = DigestLen(new.sig_alg)
           /\ Len(new.bh[1]) = DigestLen(new.sig_alg)
           /\ (HasTag(sig, "t") => new.timestamp <= create.now)
           /\ (HasTag(sig, "x") => new.expiration >= create.now)
           /\ new.dns_key = <<new.selector[1]
                                \o <<".","_","d","o","m","a","i","n","k","e","y",".">>
                                \o new.domain[1]>>

-----------------------------------------------------------------------------
(* The items of a signature as its text has them: the text is cut at every *)
(* ';', an item's name is what stands before its first '=' and its value   *)
(* what stands after it, both without the white space around them.         *)

\* the places where an item of s begins
ItemStarts(s) == {1} \cup {j + 1 : j \in {k \in 1..Len(s) : s[k] = ";"}}

\* the item of s that begins at a: the text up to the next ';' or the end
ItemFrom(s, a) ==
    LET stops == {j \in a..Len(s) : s[j] = ";"} \cup {Len(s) + 1}
    IN SubSeq(s, a, (CHOOSE j \in stops : \A k \in stops : j <= k) - 1)

\* name and value of the item it; eq tells whether the item has a '='
ItemParts(it) ==
    LET eqs == {j \in 1..Len(it) : it[j] = "="}
        e == IF eqs = {} THEN Len(it) + 1
             ELSE CHOOSE j \in eqs : \A k \in eqs : j <= k
    IN [name |-> g_strstrip(SubSeq(it, 1, e - 1)),
        value |-> g_strstrip(SubSeq(it, e + 1, Len(it))),
        eq |-> eqs # {}]

\* the items of s that are not empty
SigItems(s) ==
    {ItemParts(ItemFrom(s, a)) :
        a \in {b \in ItemStarts(s) : g_strstrip(ItemFrom(s, b)) # <<>>}}

\* the values that the items named name have in s
TagValues(s, name) == {it.value : it \in {i \in SigItems(s) : i.eq /\ i.name = name}}

\* the value of the one item named name
TagValue(s, name) == CHOOSE v \in TagValues(s, name) : TRUE

-----------------------------------------------------------------------------
(* The length of bh, lines 511-524 and 267-275.                            *)

\* base64 text of n bytes
B64Text(n) ==
    Rep(<<"A","A","A","A">>, n \div 3)
    \o (CASE n % 3 = 0 -> <<>>
          [] n % 3 = 1 -> <<"A","A","=","=">>
          [] n % 3 = 2 -> <<"A","A","A","=">>)

\* the numbers of bytes that the bh values of the model decode to
BhLens == {0, 2, 19, 20, 21, 31, 32, 33}

BhValues == {B64Text(n) : n \in BhLens} \cup {<<"A">>}

\* signatures with every required tag, the algorithm and bh last in either order
BhTails(alg) ==
    UNION {{<<Item_a(alg), <<"b","h","=">> \o v>>,
            <<<<"b","h","=">> \o v, Item_a(alg)>>} : v \in BhValues}

BhSigs ==
    UNION {{Join(ReqItems(TagSet \ {"a", "bh"}, alg) \o tail, ItemSep) \o term :
               term \in Terminators, tail \in BhTails(alg)} :
           alg \in {"RSASHA1", "RSASHA256"}}

InitBh ==
    /\ sig \in BhSigs
    /\ create = CreateStart
    /\ txt = Idle /\ keycb = Idle /\ body = Idle /\ canon = Idle
    /\ elide = Idle /\ task = Idle /\ chk = Idle

SpecBh == InitBh /\ [][NextCreate]_vars

\* the number of bytes that the base64 text v decodes to
DecodedLen(v) == IF Len(v) <= 1 THEN 0 ELSE Len(g_base64_decode_inplace(v, Len(v)).data)

\* the digest length of the algorithm that the a tag names
DigestLenOf(a) == IF a = Chars_rsa_sha1 THEN SHA1_DIGEST_LEN ELSE SHA256_DIGEST_LEN

\* C14: for a signature with every required tag, a bh that decodes to another
\* number of bytes than the digest length of its algorithm (20 for rsa-sha1,
\* 32 for rsa-sha256) is refused with BADSIG, and a bh of the digest length is
\* not refused with BADSIG.
C14_BhLengthLaw ==
    CreateReturned =>
        IF DecodedLen(TagValue(sig, <<"b","h">>)) # DigestLenOf(TagValue(sig, <<"a">>))
        THEN create.ret = "NULL" /\ create.err = "BADSIG"
        ELSE create.err # "BADSIG"

-----------------------------------------------------------------------------
(* The list of signed headers, lines 181-225.                              *)

\* the largest number of entries of an h= value
MaxEntries == 3

HdrEntryTexts ==
    {<<"f","r","o","m">>, <<"F","r","o","m">>, <<"F","R","O","M">>,
     <<SP,"f","r","o","m",HT>>, <<"t","o">>, <<>>, <<SP>>}

HdrLists == UNION {[1..n -> HdrEntryTexts] : n \in 1..MaxEntries}

\* signatures with every required tag, h= the last item
HdrSigs ==
    {Join(ReqItems(TagSet \ {"h"}, "RSASHA1") \o <<<<"h","=">> \o Join(l, <<":">>)>>,
          ItemSep) \o term :
        l \in HdrLists, term \in Terminators}

InitHdrlist ==
    /\ sig \in HdrSigs
    /\ create = CreateStart
    /\ txt = Idle /\ keycb = Idle /\ body = Idle /\ canon = Idle
    /\ elide = Idle /\ task = Idle /\ chk = Idle

SpecHdrlist == InitHdrlist /\ [][NextCreate]_vars

\* the places where an entry of the h= value v begins
HdrEntryStarts(v) == {1} \cup {j + 1 : j \in {k \in 1..Len(v) : v[k] = ":"}}

\* the entries of v, cut at every ':', without the white space around them
HdrEntries(v) ==
    LET starts == HdrEntryStarts(v)
        nth(k) == CHOOSE a \in starts : Cardinality({b \in starts : b < a}) = k - 1
        upto(a) == LET stops == {j \in a..Len(v) : v[j] = ":"} \cup {Len(v) + 1}
                   IN CHOOSE j \in stops : \A k \in stops : j <= k
    IN [k \in 1..Cardinality(starts) |-> g_strstrip(SubSeq(v, nth(k), upto(nth(k)) - 1))]

\* C15: an h= value whose entries, trimmed and compared without regard to
\* letter case, do not include from is refused with INVALID_H, the empty list
\* too; when from is among the entries the signature is accepted and the list
\* of the context has the entries in the order of the text (entries that are
\* empty may be left out).
C15_FromMandated ==
    CreateReturned =>
        LET es == HdrEntries(TagValue(sig, <<"h">>))
        IN IF \E k \in 1..Len(es) : StrCaseEq(es[k], Chars_from)
           THEN /\ create.ret = "CTX"
                /\ create.new.hlist \in {es, SelectSeq(es, LAMBDA e : e # <<>>)}
           ELSE create.ret = "NULL" /\ create.err = "INVALID_H"

-----------------------------------------------------------------------------
(* The clock checks, lines 525-534.                                        *)

\* the number that the tag name has in s; s has one such tag
TagNumber(s, name) == rspamd_strtoul(TagValue(s, name)).val

\* the checks of lines 483-524 have passed: the clock has been read
ClockChecked == CreateReturned /\ create.err \in {"NONE", "FUTURE", "EXPIRED"}

\* C16: for a signature that passes the completeness and bh length checks, a
\* t tag with t > now gives FUTURE, an x tag with x < now and t not in the
\* future gives EXPIRED, and with t <= now and x >= now neither is raised.
C16_ClockBounds ==
    (/\ ClockChecked
     /\ Cardinality(TagValues(sig, <<"t">>)) <= 1
     /\ Cardinality(TagValues(sig, <<"x">>)) <= 1) =>
        LET future == /\ TagValues(sig, <<"t">>) # {}
                      /\ TagNumber(sig, <<"t">>) > create.now
            expired == /\ TagValues(sig, <<"x">>) # {}
                       /\ TagNumber(sig, <<"x">>) < create.now
        IN IF future THEN create.ret = "NULL" /\ create.err = "FUTURE"
           ELSE IF expired THEN create.ret = "NULL" /\ create.err = "EXPIRED"
           ELSE create.ret = "CTX" /\ create.err = "NONE"

-----------------------------------------------------------------------------
(* rspamd_create_dkim_context on two signatures that differ in one place,  *)
(* with the same clock: sig is the pair, create has the two results.       *)

\* what a call gives to its caller: the context, or NULL and the error kind
Result(f) == [ret |-> f.ret, err |-> f.err,
              new |-> IF f.ret = "CTX" THEN f.new ELSE NewContext]

PairStart == [step |-> 1, now |-> 0, res |-> <<>>]

PairFrame == UNCHANGED <<sig, txt, keycb, body, canon, elide, task, chk>>

CreateFirst ==
    /\ create.step = 1
    /\ \E now \in Clock :
          create' = [step |-> 2, now |-> now,
                     res |-> <<Result(rspamd_create_dkim_context(sig[1], now))>>]
    /\ PairFrame

CreateSecond ==
    /\ create.step = 2
    /\ create' = [create EXCEPT
                     !.step = 3,
                     !.res = @ \o <<Result(rspamd_create_dkim_context(sig[2], create.now))>>]
    /\ PairFrame

NextPair == CreateFirst \/ CreateSecond

\* both calls have returned
PairDone == create.step = 3

SameResult == create.res[1] = create.res[2]

-----------------------------------------------------------------------------
(* The end of the last value, lines 435-459.                               *)

\* the item of the base64 bh of SHA-1 length
Item_bh == <<"b","h","=">> \o B64OfLen(SHA1_DIGEST_LEN)

\* items of known tags that stand last in a signature
LastItems ==
    {<<"v","=","1">>,
     <<"v","=","2">>,
     <<"a","=","r","s","a","-","s","h","a","1">>,
     <<"a","=","r","s","a","-","s","h","a","2","5","6">>,
     <<"b","=","A","A","A","A">>,
     <<"b","=","B","B">>,
     <<"c","=","s","i","m","p","l","e">>,
     <<"c","=","r","e","l","a","x","e","d">>,
     <<"c","=","r","e","l","a","x","e","d","/","s","i","m","p","l","e">>,
     <<"c","=","s","i","m","p","l","e","/","r","e","l","a","x","e","d">>,
     <<"d","=","e","x">>,
     <<"d","=","y","y">>,
     <<"h","=","f","r","o","m">>,
     <<"h","=","t","o",":","F","r","o","m">>,
     <<"h","=","t","o">>,
     <<"i","=","@","e","x">>,
     <<"l","=","5">>,
     <<"l","=","0">>,
     <<"q","=","d","n","s","/","t","x","t">>,
     <<"s","=","k">>,
     <<"s","=","s","e","l">>,
     <<"t","=","2">>,
     <<"t","=","0">>,
     <<"x","=","2">>,
     <<"x","=","3">>,
     <<"z","=","a">>,
     Item_bh}

\* the name of the tag of the item it
NameOf(it) == ItemParts(it).name

\* the required tags whose name is not that of the item it
OtherTags(it) ==
    {t \in TagSet : NameOf(it) # (IF t = "bh" THEN <<"b","h">> ELSE <<t>>)}

\* a signature with the item it last, after the required tags other than its
\* own: ended by end-of-input, and ended by ';'
TerminatorPairs ==
    {<<Join(ReqItems(OtherTags(it), "RSASHA1") \o <<it>>, ItemSep),
       Join(ReqItems(OtherTags(it), "RSASHA1") \o <<it>>, ItemSep) \o <<";">>>> :
        it \in LastItems}

InitTerminator ==
    /\ sig \in TerminatorPairs
    /\ create = PairStart
    /\ txt = Idle /\ keycb = Idle /\ body = Idle /\ canon = Idle
    /\ elide = Idle /\ task = Idle /\ chk = Idle

SpecTerminator == InitTerminator /\ [][NextPair]_vars

\* C17: a signature whose last item T=V ends at end-of-input gives the same
\* result, the same context or the same error kind, as the signature with
\* T=V; in its place.
C17_EndOfInputTerminates == PairDone => SameResult

-----------------------------------------------------------------------------
(* White space around the parts of an item, lines 329-359 and 435-468.     *)

\* the longest run of white space put into a signature
MaxWs == 2

WsBytes == {SP, HT, CR, LF}

WsRuns == UNION {[1..n -> WsBytes] : n \in 1..MaxWs}

WsPlaces == {"BEFORE_NAME", "BEFORE_EQ", "AFTER_EQ", "BEFORE_SEMI"}

\* the item it with the white space ws at the place
Spaced(it, place, ws) ==
    LET e == CHOOSE j \in 1..Len(it) : it[j] = "=" /\ \A k \in 1..(j - 1) : it[k] # "="
    IN CASE place = "BEFORE_NAME" -> ws \o it
         [] place = "BEFORE_EQ" -> SubSeq(it, 1, e - 1) \o ws \o SubSeq(it, e, Len(it))
         [] place = "AFTER_EQ" -> SubSeq(it, 1, e) \o ws \o SubSeq(it, e + 1, Len(it))
         [] place = "BEFORE_SEMI" -> it \o ws

\* every item of items followed by ';'
Terminated(items) == Join(items, <<";">>) \o <<";">>

\* the signature of the required tags, and the same with white space put at
\* one place of one item
WhitespacePairs ==
    LET items == ReqItems(TagSet, "RSASHA1")
    IN {<<Terminated(items),
          Terminated([items EXCEPT ![k] = Spaced(items[k], place, ws)])>> :
           k \in 1..Len(items), place \in WsPlaces, ws \in WsRuns}

InitWhitespace ==
    /\ sig \in WhitespacePairs
    /\ create = PairStart
    /\ txt = Idle /\ keycb = Idle /\ body = Idle /\ canon = Idle
    /\ elide = Idle /\ task = Idle /\ chk = Idle

SpecWhitespace == InitWhitespace /\ [][NextPair]_vars

\* C18: space, tab, CR and LF, in any number, put before a tag name, between
\* the name and '=', between '=' and the value, or between the value and its
\* ';', do not change the result, the context or the error kind.
C18_WhitespaceTolerance == PairDone => SameResult

-----------------------------------------------------------------------------
(* Items that are not tags, lines 327-434.                                 *)

\* the names of parser_funcs
KnownTagNames ==
    {<<"v">>, <<"a">>, <<"b">>, <<"c">>, <<"d">>, <<"h">>, <<"i">>, <<"l">>, <<"q">>,
     <<"s">>, <<"t">>, <<"x">>, <<"z">>, <<"b","h">>}

\* items with a name that is not a tag's, and items without '='
BadItems ==
    {<<"k","=","1">>,
     <<"k","k","=","1">>,
     <<"b","b","=","1">>,
     <<"x","y","z","=","1">>,
     <<"=","1">>,
     <<"k","=">>,
     <<"=">>,
     <<"f","o","o">>,
     <<"k">>,
     <<"b","h">>,
     <<"v">>,
     <<"h","b","=","1">>}

\* items[1..k] with the item it put after the first k items
PutAt(items, k, it) == SubSeq(items, 1, k) \o <<it>> \o SubSeq(items, k + 1, Len(items))

\* the signature of the required tags with one such item first, in the middle
\* or last
MalformedSigs ==
    LET items == ReqItems(TagSet, "RSASHA1")
    IN {Join(PutAt(items, k, it), ItemSep) \o term :
           k \in {0, 3, Len(items)}, it \in BadItems, term \in Terminators}

InitMalformed ==
    /\ sig \in MalformedSigs
    /\ create = CreateStart
    /\ txt = Idle /\ keycb = Idle /\ body = Idle /\ canon = Idle
    /\ elide = Idle /\ task = Idle /\ chk = Idle

SpecMalformed == InitMalformed /\ [][NextCreate]_vars

\* s has an item whose name is not a tag's, or an item without '='
Malformed(s) == \E it \in SigItems(s) : ~it.eq \/ it.name \notin KnownTagNames

\* C19: a signature with an item whose name is not one of v, a, b, c, d, h, i,
\* l, q, s, t, x, z, bh, whatever the length of the name, or with an item that
\* has no '=', is refused with UNKNOWN wherever the item stands, also when it
\* is the last item and ends at end-of-input.
C19_MalformedRejected ==
    (CreateReturned /\ Malformed(sig)) => (create.ret = "NULL" /\ create.err = "UNKNOWN")

-----------------------------------------------------------------------------
(* rspamd_dkim_make_key and rspamd_dkim_parse_key, lines 567-670, and the  *)
(* DNS callback rspamd_dkim_dns_cb, lines 673-705.                         *)

\* a GError: its code and its message; NoError is the pointer NULL
GError(code, message) == [code |-> code, message |-> message]
NoError == GError("NONE", "NONE")

\* g_set_error: an error that is already set is kept
g_set_error(err, code, message) == IF err = NoError THEN GError(code, message) ELSE err

\* d2i_PUBKEY_bio and EVP_PKEY_get1_RSA accept the bytes: the one DER encoding
\* of a public key that the model knows, the bytes of the base64 text MIIB
IsPubKeyDer(bytes) == bytes = <<48, 130, 1>>

\* rspamd_dkim_make_key (c, len, err) on the text s: the key, NULL on failure
rspamd_dkim_make_key(s, c, keylen, err) ==
    LET d == g_base64_decode_inplace(rspamd_strlcpy(s, c, keylen), keylen + 1)
    IN IF IsPubKeyDer(d.data)
       THEN [key |-> <<[keydata |-> d.data, decoded_len |-> d.len]>>, err |-> err]
       ELSE [key |-> <<>>, err |-> g_set_error(err, "KEYFAIL", "cannot extract pubkey from bio")]

\* lines 631-633
ParseKeyStart == [c |-> 1, p |-> 1, state |-> 0, done |-> FALSE]

\* one iteration of while (p <= end), lines 635-660; k is the frame of
\* rspamd_dkim_dns_cb, k.pk the frame of rspamd_dkim_parse_key
ParseKeyStep(s, k) ==
    LET f == k.pk
        end == Len(s) + 1
    IN IF f.state = 0
       THEN IF f.p # end /\ At(s, f.p) = "p" /\ At(s, f.p + 1) = "="
            THEN [k EXCEPT !.pk = [f EXCEPT !.c = f.p + 2, !.p = f.p + 2, !.state = 1]]
            ELSE [k EXCEPT !.pk = [f EXCEPT !.p = f.p + 1]]
       ELSE IF (At(s, f.p) = ";" \/ f.p = end) /\ f.p > f.c
            THEN LET r == rspamd_dkim_make_key(s, f.c, f.p - f.c, k.err)
                 IN [k EXCEPT !.pk = [f EXCEPT !.done = TRUE],
                              !.key = r.key, !.err = r.err]
            ELSE [k EXCEPT !.pk = [f EXCEPT !.p = f.p + 1]]

\* lines 662-669: the loop ended and no key was made
ParseKeyEnd(s, k) ==
    [k EXCEPT !.pk = [k.pk EXCEPT !.done = TRUE],
              !.key = <<>>,
              !.err = IF k.pk.p - k.pk.c = 0
                      THEN g_set_error(k.err, "KEYREVOKED", "key was revoked")
                      ELSE g_set_error(k.err, "KEYFAIL", "key was not found")]

\* the loop of rspamd_dkim_parse_key from the frame k to its return
RECURSIVE ParseKeyRun(_, _)
ParseKeyRun(s, k) ==
    IF k.pk.done THEN k
    ELSE IF k.pk.p > Len(s) + 1 THEN ParseKeyEnd(s, k)
    ELSE ParseKeyRun(s, ParseKeyStep(s, k))

\* rspamd_dkim_parse_key (txt, &keylen, &err): the key, NULL on failure, and
\* the error that err points to afterwards
rspamd_dkim_parse_key(txt_data, err) ==
    LET k == ParseKeyRun(txt_data, [pk |-> ParseKeyStart, key |-> <<>>, err |-> err])
    IN [key |-> k.key, err |-> k.err]

\* the pointer key before anything is assigned to it, and a value other than
\* NULL that it can hold then
KeyUninitialised == [keydata |-> <<>>, decoded_len |-> -1]
KeyGarbage == [keydata |-> <<>>, decoded_len |-> -2]

\* the frame of rspamd_dkim_dns_cb before the reply: cur is the place in
\* reply->elements, calls the invocations of cbdata->handler so far;
\* key is not initialised (line 677)
DnsCbStart ==
    [stage |-> "WAIT", cur |-> 1, key |-> <<KeyUninitialised>>, err |-> NoError,
     pk |-> ParseKeyStart, calls |-> <<>>, cbdata |-> <<>>, request |-> <<>>]

\* lines 718-726: the cbdata that rspamd_get_dkim_key makes
NewCbdata(ctx, handler, ud) == [ctx |-> ctx, handler |-> handler, ud |-> ud]

cbdata_handler_Twice(calls, cbdata, key, err) ==
    calls \o <<[handler |-> cbdata.handler, key |-> key, ctx |-> cbdata.ctx,
                ud |-> cbdata.ud, err |-> err],
               [handler |-> cbdata.handler, key |-> key, ctx |-> cbdata.ctx,
                ud |-> cbdata.ud, err |-> err]>>

\* cbdata->handler (key, keylen, cbdata->ctx, cbdata->ud, err), lines 686 and
\* 703: calls with the invocation added
cbdata_handler(calls, cbdata, key, err) ==
    calls \o <<[handler |-> cbdata.handler, key |-> key, ctx |-> cbdata.ctx,
                ud |-> cbdata.ud, err |-> err]>>

\* the TXT records of the model
TXT_KEY == <<"p","=","M","I","I","B">>
TXT_V_KEY == <<"v","=","1",";","p","=","M","I","I","B",";","t","=","s">>
TXT_REVOKED_END == <<"v","=","D","K","I","M","1",";",SP,"p","=">>
TXT_REVOKED_SEMI == <<"p","=",";","t","=","s">>
TXT_REVOKED_ONLY == <<"p","=",";">>
TXT_NO_P == <<"k","=","r","s","a">>
TXT_BAD_KEY == <<"p","=","Q","U","J","D">>

TxtRecords == {TXT_KEY, TXT_V_KEY, TXT_REVOKED_END, TXT_REVOKED_SEMI, TXT_REVOKED_ONLY,
               TXT_NO_P, TXT_BAD_KEY}

\* records whose p= tag is present with an empty value
RevokedRecords == {TXT_REVOKED_END, TXT_REVOKED_SEMI, TXT_REVOKED_ONLY}

\* the number of TXT records in a reply
MaxRecords == 2

DnsCodes == {"NOERROR", "NXDOMAIN", "SERVFAIL"}

Replies ==
    {[code |-> "NOERROR", elements |-> e] :
        e \in UNION {[1..n -> TxtRecords] : n \in 0..MaxRecords}}
    \cup {[code |-> c, elements |-> <<>>] : c \in DnsCodes \ {"NOERROR"}}

\* the arguments of rspamd_get_dkim_key: the context, by its dns_key, the
\* handler and the user data
KeyRequests ==
    [ctx : {<<"k",".","_","d","o","m","a","i","n","k","e","y",".","e","x">>},
     handler : {"handler"}, ud : {"ud1", "ud2"}]

InitKey ==
    /\ txt \in Replies
    /\ keycb = [DnsCbStart EXCEPT !.stage = "REQUEST"]
    /\ sig = Idle /\ create = Idle /\ body = Idle /\ canon = Idle
    /\ elide = Idle /\ task = Idle /\ chk = Idle

KeyFrame == UNCHANGED <<sig, create, txt, body, canon, elide, task, chk>>

\* rspamd_get_dkim_key, lines 714-729; make_dns_request sends the request or
\* fails, and a request that was not sent has no reply
GetDkimKey ==
    /\ keycb.stage = "REQUEST"
    /\ \E r \in KeyRequests, sent \in BOOLEAN :
          keycb' = [keycb EXCEPT !.request = <<r>>,
                                 !.cbdata = <<NewCbdata(r.ctx, r.handler, r.ud)>>,
                                 !.stage = IF sent THEN "WAIT" ELSE "NOREQ"]
    /\ KeyFrame

\* lines 683-687: the reply is a failure
DnsFailure ==
    /\ keycb.stage = "WAIT" /\ txt.code # "NOERROR"
    /\ LET err == g_set_error(keycb.err, "NOKEY", "dns request failed")
       IN keycb' = [keycb EXCEPT !.stage = "DONE", !.err = err,
                                 !.calls = cbdata_handler(@, keycb.cbdata[1], <<>>, err)]
    /\ KeyFrame

\* line 689: the reply is a success
DnsSuccess ==
    /\ keycb.stage = "WAIT" /\ txt.code = "NOERROR"
    /\ keycb' = [keycb EXCEPT !.stage = "LIST", !.cur = 1]
    /\ KeyFrame

\* lines 690-692: the next record is handed to rspamd_dkim_parse_key
RecordBegin ==
    /\ keycb.stage = "LIST" /\ keycb.cur <= Len(txt.elements)
    /\ keycb' = [keycb EXCEPT !.stage = "PARSE", !.pk = ParseKeyStart]
    /\ KeyFrame

ParseKeyState0 ==
    /\ keycb.stage = "PARSE" /\ ~keycb.pk.done /\ keycb.pk.state = 0
    /\ keycb.pk.p <= Len(txt.elements[keycb.cur]) + 1
    /\ keycb' = ParseKeyStep(txt.elements[keycb.cur], keycb)
    /\ KeyFrame

ParseKeyState1 ==
    /\ keycb.stage = "PARSE" /\ ~keycb.pk.done /\ keycb.pk.state = 1
    /\ keycb.pk.p <= Len(txt.elements[keycb.cur]) + 1
    /\ keycb' = ParseKeyStep(txt.elements[keycb.cur], keycb)
    /\ KeyFrame

ParseKeyNoKey ==
    /\ keycb.stage = "PARSE" /\ ~keycb.pk.done
    /\ keycb.pk.p > Len(txt.elements[keycb.cur]) + 1
    /\ keycb' = ParseKeyEnd(txt.elements[keycb.cur], keycb)
    /\ KeyFrame

\* lines 693-696: a key ends the loop, otherwise the next record
RecordEnd ==
    /\ keycb.stage = "PARSE" /\ keycb.pk.done
    /\ keycb' = IF keycb.key # <<>> THEN [keycb EXCEPT !.stage = "CALL"]
                ELSE [keycb EXCEPT !.stage = "LIST", !.cur = keycb.cur + 1]
    /\ KeyFrame

ListEnd ==
    /\ keycb.stage = "LIST" /\ keycb.cur > Len(txt.elements)
    /\ keycb' = [keycb EXCEPT !.stage = "CALL"]
    /\ KeyFrame

\* lines 698-703.  A key that was never assigned (no record in the reply) is
\* an uninitialised pointer: NULL or not, as the build happens to leave it.
Deliver ==
    /\ keycb.stage = "CALL"
    /\ \E key \in IF keycb.key = <<KeyUninitialised>> THEN {<<>>, <<KeyGarbage>>}
                  ELSE {keycb.key} :
          LET err == IF key # <<>> /\ keycb.err # NoError THEN NoError ELSE keycb.err
          IN keycb' = [keycb EXCEPT !.stage = "DONE", !.key = key, !.err = err,
                                    !.calls = cbdata_handler(@, keycb.cbdata[1], key, err)]
    /\ KeyFrame

NextKey == GetDkimKey \/ DnsFailure \/ DnsSuccess \/ RecordBegin \/ ParseKeyState0 \/ ParseKeyState1
           \/ ParseKeyNoKey \/ RecordEnd \/ ListEnd \/ Deliver

SpecKey == InitKey /\ [][NextKey]_vars

\* the steps of rspamd_dkim_dns_cb after its entry: the callback runs to its
\* end once the resolver has called it
DnsCbRuns ==
    RecordBegin \/ ParseKeyState0 \/ ParseKeyState1 \/ ParseKeyNoKey \/ RecordEnd
    \/ ListEnd \/ Deliver

SpecKeyLive == SpecKey /\ WF_vars(DnsCbRuns)

\* C5: a TXT record whose p= tag is present with an empty value, ended by
\* end-of-string or by ';', makes the key-record parser yield KEYREVOKED, and
\* when it is the only record the callback delivers KEYREVOKED and no key.
C5_EmptyPMeansRevoked ==
    /\ (/\ keycb.stage \in {"PARSE", "LIST"}
        /\ keycb.pk.done
        /\ keycb.cur = 1
        /\ Len(txt.elements) >= 1
        /\ txt.elements[1] \in RevokedRecords)
       => (keycb.key = <<>> /\ keycb.err.code = "KEYREVOKED")
    /\ (/\ keycb.stage = "DONE"
        /\ Len(txt.elements) = 1
        /\ txt.elements[1] \in RevokedRecords)
       => /\ Len(keycb.calls) = 1
          /\ keycb.calls[1].key = <<>>
          /\ keycb.calls[1].err.code = "KEYREVOKED"

\* the reply has been given to rspamd_dkim_dns_cb
ReplyArrived == keycb.stage \in {"LIST", "PARSE", "CALL", "DONE"}

\* the record i of the reply, parsed on its own
RecordResult(i) == rspamd_dkim_parse_key(txt.elements[i], NoError)

ValidRecords == {i \in 1..Len(txt.elements) : RecordResult(i).key # <<>>}

\* C11: for a successful reply with the records r1..rn, n >= 1, the handler
\* gets the key of the first record that yields one, and no error; when no
\* record yields a key it gets no key and the error of the last record rn.
C11_DnsMultiplicity ==
    (keycb.stage = "DONE" /\ txt.code = "NOERROR" /\ Len(txt.elements) >= 1) =>
        /\ Len(keycb.calls) = 1
        /\ IF ValidRecords # {}
           THEN LET i == CHOOSE j \in ValidRecords : \A k \in ValidRecords : j <= k
                IN /\ keycb.calls[1].key = RecordResult(i).key
                   /\ keycb.calls[1].err = NoError
           ELSE /\ keycb.calls[1].key = <<>>
                /\ keycb.calls[1].err = RecordResult(Len(txt.elements)).err

\* the handler has been invoked at most once, not before the reply, and with
\* the handler's context and user data of the request
CompletedAtMostOnce ==
    /\ Len(keycb.calls) <= 1
    /\ (~ReplyArrived => keycb.calls = <<>>)
    /\ \A n \in 1..Len(keycb.calls) :
          /\ keycb.calls[n].handler = keycb.request[1].handler
          /\ keycb.calls[n].ctx = keycb.request[1].ctx
          /\ keycb.calls[n].ud = keycb.request[1].ud

\* C12: for every reply given to the adapter the handler is invoked exactly
\* once, with the ctx and the user data of the request: never before the
\* reply, never a second time, and once the reply has arrived it is invoked.
C12_SingleCompletion ==
    /\ [](CompletedAtMostOnce /\ (keycb.stage = "DONE" => Len(keycb.calls) = 1))
    /\ (ReplyArrived ~> (keycb.stage = "DONE" /\ Len(keycb.calls) = 1))

\* the one invocation after a reply whose records all fail to parse
C12_Witness ==
    /\ keycb.stage = "DONE" /\ Len(keycb.calls) = 1
    /\ txt.code = "NOERROR" /\ Len(txt.elements) = 2 /\ ValidRecords = {}
    /\ keycb.calls[1].ud = "ud2"

\* C25: in every invocation of the key handler exactly one of key and err
\* is not NULL, and a NOERROR reply without TXT records delivers no key and
\* an error of kind NOKEY.
C25_HandlerArguments ==
    \A i \in 1..Len(keycb.calls) :
        /\ (keycb.calls[i].key = <<>>) # (keycb.calls[i].err = NoError)
        /\ (txt.code = "NOERROR" /\ txt.elements = <<>>) =>
              /\ keycb.calls[i].key = <<>>
              /\ keycb.calls[i].err # NoError
              /\ keycb.calls[i].err.code = "NOKEY"

\* C13: when the reply code is not success the handler gets no key and an
\* error of kind NOKEY for NXDOMAIN and of kind KEYFAIL for any other code.
C13_DnsFailureClassification ==
    (keycb.stage = "DONE" /\ txt.code # "NOERROR") =>
        /\ Len(keycb.calls) = 1
        /\ keycb.calls[1].key = <<>>
        /\ keycb.calls[1].err.code = IF txt.code = "NXDOMAIN" THEN "NOKEY" ELSE "KEYFAIL"

-----------------------------------------------------------------------------
(* The two parsers on any input: rspamd_create_dkim_context on short byte  *)
(* strings and on complete signatures, and, for the contexts it returns,   *)
(* the key request with rspamd_dkim_parse_key on short TXT records.        *)

MaxParserSig == 2
MaxParserTxt == 2

ParserSigBytes == {"v", "=", ";", SP, "1"}
ParserTxtBytes == {"p", "=", ";", "M"}

ParserSigs ==
    UNION {[1..n -> ParserSigBytes] : n \in 0..MaxParserSig}
    \cup {Join(ReqItems(TagSet, alg), ItemSep) \o term :
             alg \in {"RSASHA1", "RSASHA256"}, term \in Terminators}

ParserReplies ==
    {[code |-> "NOERROR", elements |-> <<t>>] :
        t \in UNION {[1..n -> ParserTxtBytes] : n \in 0..MaxParserTxt}
              \cup {TXT_KEY, TXT_V_KEY}}
    \cup {[code |-> "SERVFAIL", elements |-> <<>>]}

InitParsers ==
    /\ sig \in ParserSigs
    /\ create = CreateStart
    /\ txt \in ParserReplies
    /\ keycb = [DnsCbStart EXCEPT !.stage = "REQUEST"]
    /\ body = Idle /\ canon = Idle /\ elide = Idle /\ task = Idle /\ chk = Idle

\* rspamd_get_dkim_key takes the context that rspamd_create_dkim_context
\* returned: the key is asked for once there is one
KeySteps == create.ret = "CTX" /\ NextKey

NextParsers == NextCreate \/ KeySteps

SpecParsers == InitParsers /\ [][NextParsers]_vars

\* both parsers are loops of sequential code: a loop that can take a step
\* takes it
SpecParsersLive == SpecParsers /\ WF_vars(NextCreate) /\ WF_vars(DnsCbRuns)

\* How far a frame of rspamd_create_dkim_context is from the next byte it
\* consumes: the states it can still pass through without moving p.
StateRank(f) ==
    IF f.ret # "LOOP" THEN 0
    ELSE CASE f.state = "ERROR" -> 1
           [] f.state = "VALUE" -> 2
           [] f.state = "SKIP_SPACES" /\ f.next_state = "VALUE" -> 3
           [] f.state = "AFTER_TAG" -> 4
           [] f.state = "SKIP_SPACES" /\ f.next_state = "AFTER_TAG" -> 5
           [] f.state = "TAG" -> 6
           [] OTHER -> 7

\* an iteration of the tag parser consumes a byte, or moves nearer to the
\* return or to the state that consumes one
CreateAdvances ==
    (create.ret = "LOOP" /\ create' # create) =>
        \/ create'.p > create.p
        \/ create'.p = create.p /\ StateRank(create') < StateRank(create)

\* an iteration of the key-record parser consumes a byte or returns
ParseKeyAdvances ==
    (keycb.stage = "PARSE" /\ ~keycb.pk.done /\ keycb'.pk # keycb.pk) =>
        keycb'.pk.p > keycb.pk.p \/ keycb'.pk.done

\* the read positions stay within one byte after the terminating NUL
PositionsBounded ==
    /\ create.p <= SigEnd(sig) + 1
    /\ keycb.stage = "PARSE" => keycb.pk.p <= Len(txt.elements[keycb.cur]) + 2

\* C26: on every input the tag parser of rspamd_create_dkim_context and the
\* key-record parser return; every iteration consumes a byte or moves nearer
\* to one that does, so no sequence of transitions keeps the read position
\* in place; and the read position is never more than one past the NUL.
C26_ParsersFinish ==
    /\ []PositionsBounded
    /\ [][CreateAdvances /\ ParseKeyAdvances]_vars
    /\ <>CreateReturned
    /\ (keycb.stage = "PARSE") ~> (keycb.stage # "PARSE")

\* both parsers have returned, the key-record parser after it read the NUL
\* of a record without a key
C26_Witness ==
    /\ create.ret = "CTX"
    /\ keycb.stage = "DONE"
    /\ txt.code = "NOERROR"
    /\ keycb.pk.p = Len(txt.elements[1]) + 2
    /\ keycb.key = <<>>

-----------------------------------------------------------------------------
(* rspamd_dkim_relaxed_body_step and rspamd_dkim_canonize_body, lines      *)
(* 731-833.  A body is [msg, start, bend, type]: the bytes of the message, *)
(* the places of start and end in it (start 0 is NULL), and                *)
(* ctx->body_canon_type.                                                   *)

\* sizeof (buf), line 735
BUFSIZ == 8192

\* *(msg + i - 1); the byte after the last one is not part of the message
MsgAt(msg, i) == IF i >= 1 /\ i <= Len(msg) THEN msg[i] ELSE OOB

\* The loop of rspamd_dkim_relaxed_body_step, lines 752-782, over the bytes
\* msg[h ..], len of them left; t is the content of buf.
RECURSIVE RelaxedBodyLoop(_, _, _, _, _)
RelaxedBodyLoop(msg, h, len, t, got_sp) ==
    IF len = 0 THEN t
    ELSE LET ch == MsgAt(msg, h)
         IN IF ch = CR \/ ch = LF
            THEN RelaxedBodyLoop(msg, h + 1, len - 1,
                     (IF got_sp THEN SubSeq(t, 1, Len(t) - 1) ELSE t) \o <<ch>>, FALSE)
            ELSE IF g_ascii_isspace(ch)
            THEN IF got_sp THEN RelaxedBodyLoop(msg, h + 1, len - 1, t, TRUE)
                 ELSE RelaxedBodyLoop(msg, h + 1, len - 1, t \o <<SP>>, TRUE)
            ELSE RelaxedBodyLoop(msg, h + 1, len - 1, t \o <<ch>>, FALSE)

\* while (rspamd_dkim_relaxed_body_step (ck, &start, end - start + 1)): the
\* bytes the calls feed, a chunk of at most BUFSIZ bytes each
RECURSIVE RelaxedBodyFeed(_, _, _)
RelaxedBodyFeed(msg, start, remain) ==
    IF remain > BUFSIZ
    THEN RelaxedBodyLoop(msg, start, BUFSIZ, <<>>, FALSE)
         \o RelaxedBodyFeed(msg, start + BUFSIZ, remain - BUFSIZ)
    ELSE RelaxedBodyLoop(msg, start, remain, <<>>, FALSE)

\* line 797-802: the call begins; f is [stage, end, fed, ret]
CanonizeBodyStart(b) ==
    IF b.start = 0
    THEN [stage |-> "DONE", end |-> b.bend, fed |-> CRLF, ret |-> "FALSE"]
    ELSE [stage |-> "STRIP", end |-> b.bend - 1, fed |-> <<>>, ret |-> "NONE"]

\* one test of while (end > start + 2), lines 803-810
CanonizeBodyStrip(b, f) ==
    IF /\ f.end > b.start + 2
       /\ MsgAt(b.msg, f.end) = LF
       /\ MsgAt(b.msg, f.end - 1) = CR
       /\ MsgAt(b.msg, f.end - 2) = LF
    THEN [f EXCEPT !.end = f.end - 2]
    ELSE [f EXCEPT !.stage = "FEED"]

\* What g_checksum_update feeds when the span handed to it ends before its
\* start: the length is negative, the bytes hashed are whatever follows in
\* memory.
GarbageFeeds == {<<>>, <<OOB>>}

\* lines 811-822: the frames the feed can lead to
CanonizeBodyFeed(b, f) ==
    IF f.end = b.start \/ f.end = b.start + 2
    THEN {[f EXCEPT !.fed = CRLF, !.stage = "DONE", !.ret = "TRUE"]}
    ELSE IF f.end - b.start + 1 < 0
    THEN {[f EXCEPT !.fed = g, !.stage = "CRLF"] : g \in GarbageFeeds}
    ELSE IF b.type = "SIMPLE"
    THEN {[f EXCEPT !.fed = [i \in 1..(f.end - b.start + 1) |->
                                MsgAt(b.msg, b.start + i - 1)],
                    !.stage = "CRLF"]}
    ELSE {[f EXCEPT !.fed = RelaxedBodyFeed(b.msg, b.start, f.end - b.start + 1),
                    !.stage = "CRLF"]}

\* lines 823-828
CanonizeBodyCrlf(b, f) ==
    IF MsgAt(b.msg, f.end) # LF \/ MsgAt(b.msg, f.end - 1) # CR
    THEN [f EXCEPT !.fed = f.fed \o CRLF, !.stage = "DONE", !.ret = "TRUE"]
    ELSE [f EXCEPT !.stage = "DONE", !.ret = "TRUE"]

RECURSIVE CanonizeBodyStripAll(_, _)
CanonizeBodyStripAll(b, f) ==
    IF f.stage = "STRIP" THEN CanonizeBodyStripAll(b, CanonizeBodyStrip(b, f)) ELSE f

\* the whole call: the frames it can end in
rspamd_dkim_canonize_body(b) ==
    LET f == CanonizeBodyStripAll(b, CanonizeBodyStart(b))
    IN IF f.stage = "DONE" THEN {f}
       ELSE {IF g.stage = "DONE" THEN g ELSE CanonizeBodyCrlf(b, g) :
                g \in CanonizeBodyFeed(b, f)}

-----------------------------------------------------------------------------
(* The specification of rspamd_dkim_canonize_body: the call on a body, and *)
(* a second call on the bytes the first one fed.                           *)

\* the longest body span
MaxBody == 5

BodyBytes == {"a", SP, CR, LF}

BodySpans == UNION {[1..n -> BodyBytes] : n \in 0..MaxBody}

\* the header/body terminators that rspamd_dkim_check tolerates
HeaderTerminators == {<<CR, LF, CR, LF>>, <<LF, LF>>, <<CR, CR>>, <<LF, CR>>}

CanonTypes == {"SIMPLE", "RELAXED"}

\* the message of a header byte, the terminator term and the body span B
BodyOf(term, B, type) ==
    [msg |-> <<"h">> \o term \o B, start |-> Len(term) + 2,
     bend |-> Len(term) + Len(B) + 2, type |-> type]

BodyInputs ==
    {BodyOf(term, B, type) : term \in HeaderTerminators, B \in BodySpans,
                             type \in CanonTypes}
    \cup {[msg |-> <<"h">>, start |-> 0, bend |-> 2, type |-> type] : type \in CanonTypes}

\* the bytes of the body span
SpanOf(b) == IF b.start = 0 THEN <<>> ELSE SubSeq(b.msg, b.start, b.bend - 1)

NotCalled == [stage |-> "CALL", end |-> 0, fed |-> <<>>, ret |-> "NONE"]

InitBody ==
    /\ body \in BodyInputs
    /\ canon = [f |-> NotCalled, pass |-> 1, first |-> <<>>]
    /\ sig = Idle /\ create = Idle /\ txt = Idle /\ keycb = Idle
    /\ elide = Idle /\ task = Idle /\ chk = Idle

BodyFrame == UNCHANGED <<sig, create, txt, keycb, elide, task, chk>>

BodyCall ==
    /\ canon.f.stage = "CALL"
    /\ canon' = [canon EXCEPT !.f = CanonizeBodyStart(body)]
    /\ UNCHANGED body /\ BodyFrame

BodyStrip ==
    /\ canon.f.stage = "STRIP"
    /\ canon' = [canon EXCEPT !.f = CanonizeBodyStrip(body, canon.f)]
    /\ UNCHANGED body /\ BodyFrame

BodyFeed ==
    /\ canon.f.stage = "FEED"
    /\ \E g \in CanonizeBodyFeed(body, canon.f) : canon' = [canon EXCEPT !.f = g]
    /\ UNCHANGED body /\ BodyFrame

BodyCrlf ==
    /\ canon.f.stage = "CRLF"
    /\ canon' = [canon EXCEPT !.f = CanonizeBodyCrlf(body, canon.f)]
    /\ UNCHANGED body /\ BodyFrame

\* the bytes fed become the body of a second message with the same headers
BodyAgain ==
    /\ canon.f.stage = "DONE" /\ canon.pass = 1 /\ body.start # 0
    /\ body' = [body EXCEPT !.msg = SubSeq(body.msg, 1, body.start - 1) \o canon.f.fed,
                            !.bend = body.start + Len(canon.f.fed)]
    /\ canon' = [f |-> NotCalled, pass |-> 2, first |-> canon.f.fed]
    /\ BodyFrame

NextBody == BodyCall \/ BodyStrip \/ BodyFeed \/ BodyCrlf \/ BodyAgain

SpecBody == InitBody /\ [][NextBody]_vars

\* a sequence of CR LF pairs, the empty sequence among them
IsCrlfPairs(B) ==
    /\ Len(B) % 2 = 0
    /\ \A i \in 1..Len(B) : B[i] = (IF i % 2 = 1 THEN CR ELSE LF)

\* C7: a body span that is empty, after each of the tolerated terminators, or
\* that consists of CR LF pairs only, feeds exactly CR LF to the body hash, in
\* simple and in relaxed mode.
C7_EmptyBodyRule ==
    (/\ canon.pass = 1 /\ canon.f.stage = "DONE"
     /\ body.start # 0
     /\ IsCrlfPairs(SpanOf(body)))
    => canon.f.fed = CRLF

\* strip: every trailing CR LF pair removed
RECURSIVE StripCrlf(_)
StripCrlf(B) ==
    IF Len(B) >= 2 /\ B[Len(B) - 1] = CR /\ B[Len(B)] = LF
    THEN StripCrlf(SubSeq(B, 1, Len(B) - 2))
    ELSE B

\* C8: in simple mode the bytes fed to the body hash are strip(B) followed by
\* one CR LF, for every body span B.
C8_SimpleBodyReference ==
    (/\ canon.pass = 1 /\ canon.f.stage = "DONE"
     /\ body.start # 0
     /\ body.type = "SIMPLE")
    => canon.f.fed = StripCrlf(SpanOf(body)) \o CRLF

\* C9: relaxed body canonicalization is idempotent: canonicalizing the bytes
\* that a first pass fed feeds the same bytes again.
C9_RelaxedBodyIdempotent ==
    (/\ canon.pass = 2 /\ canon.f.stage = "DONE"
     /\ body.type = "RELAXED")
    => canon.f.fed = canon.first

-----------------------------------------------------------------------------
(* rspamd_dkim_signature_update, lines 836-878: the bytes of a signature   *)
(* header that reach headers_hash.  The header is the len bytes from begin *)
(* in the NUL-terminated string s.                                         *)

\* lines 842-846; st is [s, end, p, c, tag, skip, fed]
SignatureUpdateStart(s, begin, len) ==
    [s |-> s, end |-> begin + len, p |-> begin, c |-> begin, tag |-> TRUE,
     skip |-> FALSE, fed |-> <<>>]

\* one iteration of while (p < end), lines 848-866
SignatureUpdateStep(st) ==
    LET ch == At(st.s, st.p)
        g == IF st.tag /\ ch = "b" /\ At(st.s, st.p + 1) = "="
             THEN [st EXCEPT !.fed = st.fed \o Span(st.s, st.c, st.p - st.c + 2),
                             !.skip = TRUE]
             ELSE IF st.skip /\ (ch = ";" \/ st.p = st.end - 1)
             THEN [st EXCEPT !.skip = FALSE, !.c = st.p]
             ELSE IF ~st.tag /\ ch = ";" THEN [st EXCEPT !.tag = TRUE]
             ELSE IF st.tag /\ ch = "=" THEN [st EXCEPT !.tag = FALSE]
             ELSE st
    IN [g EXCEPT !.p = st.p + 1]

RECURSIVE SignatureUpdateSteps(_, _)
SignatureUpdateSteps(st, n) ==
    IF n = 0 \/ st.p >= st.end THEN st
    ELSE IF n = 1 THEN SignatureUpdateStep(st)
    ELSE LET half == SignatureUpdateSteps(st, n \div 2)
         IN IF half.p >= half.end THEN half
            ELSE SignatureUpdateSteps(half, n - (n \div 2))

\* while ((*p == '\r' || *p == '\n') && p >= c) p --;
RECURSIVE SkipCrlfBack(_, _, _)
SkipCrlfBack(s, p, c) ==
    IF At(s, p) \in {CR, LF} /\ p >= c THEN SkipCrlfBack(s, p - 1, c) ELSE p

\* the end of the call without the loop of lines 868-872
SignatureUpdateEnd_Unstripped(st) ==
    IF st.p - st.c > 0 THEN st.fed \o Span(st.s, st.c, st.p - st.c) ELSE st.fed

\* lines 868-877: the bytes fed by the whole call
SignatureUpdateEnd(st) ==
    LET p == SkipCrlfBack(st.s, st.p - 1, st.c)
    IN IF p - st.c + 1 > 0 THEN st.fed \o Span(st.s, st.c, p - st.c + 1)
       ELSE st.fed

rspamd_dkim_signature_update(s, begin, len) ==
    SignatureUpdateEnd(SignatureUpdateSteps(SignatureUpdateStart(s, begin, len), len))

-----------------------------------------------------------------------------
(* rspamd_dkim_canonize_header_relaxed, lines 880-948.                     *)

\* one iteration of while (*h), lines 910-927; st is [s, h, t, got_sp]
RelaxedHeaderStep(st) ==
    LET ch == At(st.s, st.h)
    IN IF g_ascii_isspace(ch)
       THEN IF st.got_sp THEN [st EXCEPT !.h = st.h + 1]
            ELSE [st EXCEPT !.got_sp = TRUE, !.t = st.t \o <<SP>>, !.h = st.h + 1]
       ELSE [st EXCEPT !.got_sp = FALSE, !.t = st.t \o <<ch>>, !.h = st.h + 1]

RECURSIVE RelaxedHeaderSteps(_, _)
RelaxedHeaderSteps(st, n) ==
    IF n = 0 \/ st.h > Len(st.s) THEN st
    ELSE IF n = 1 THEN RelaxedHeaderStep(st)
    ELSE LET half == RelaxedHeaderSteps(st, n \div 2)
         IN IF half.h > Len(half.s) THEN half
            ELSE RelaxedHeaderSteps(half, n - (n \div 2))

\* the content of buf: the name in lower case, the colon, the value with its
\* runs of white space collapsed, one trailing space removed, CR LF
RelaxedHeaderBuf(header, header_name) ==
    LET name == LowerStr(header_name) \o <<":">>
        t == RelaxedHeaderSteps([s |-> header, h |-> 1, t |-> name, got_sp |-> FALSE],
                                Len(header)).t
        u == IF g_ascii_isspace(t[Len(t)]) THEN SubSeq(t, 1, Len(t) - 1) ELSE t
    IN u \o CRLF

\* the bytes the call feeds to headers_hash
rspamd_dkim_canonize_header_relaxed(header, header_name, is_sign) ==
    LET buf == RelaxedHeaderBuf(header, header_name)
    IN IF ~is_sign THEN buf
       ELSE rspamd_dkim_signature_update(buf, 1, Len(buf))

-----------------------------------------------------------------------------
(* rspamd_dkim_canonize_header_relaxed on any header name and any stored   *)
(* value, one step of the function per action; the frame is in canon, the  *)
(* header in task.                                                         *)

MaxUnits == 3

\* what a stored value is made of: a byte, or the fold CR LF WSP
ValueUnits == {<<"a">>, <<"B">>, <<SP>>, <<HT>>, <<FF>>, <<CR, LF, SP>>, <<CR, LF, HT>>}

RECURSIVE ValuesOf(_)
ValuesOf(n) ==
    IF n = 0 THEN {<<>>}
    ELSE ValuesOf(n - 1) \cup {v \o u : v \in ValuesOf(n - 1), u \in ValueUnits}

RelaxedNames == {<<"F","r","o","m">>, <<"t","o">>}

InitRelaxed ==
    /\ task \in [header : ValuesOf(MaxUnits), header_name : RelaxedNames]
    /\ canon = [s |-> task.header, h |-> 1, t |-> <<>>, got_sp |-> FALSE,
                stage |-> "NAME", fed |-> <<>>]
    /\ sig = Idle /\ create = Idle /\ txt = Idle /\ keycb = Idle
    /\ body = Idle /\ elide = Idle /\ chk = Idle

RelaxedFrame == UNCHANGED <<sig, create, txt, keycb, body, elide, task, chk>>

\* lines 898-908
RelaxedName ==
    /\ canon.stage = "NAME"
    /\ canon' = [canon EXCEPT !.t = LowerStr(task.header_name) \o <<":">>,
                              !.stage = "VALUE"]
    /\ RelaxedFrame

\* lines 910-927, one iteration
RelaxedLoop ==
    /\ canon.stage = "VALUE" /\ At(canon.s, canon.h) # NUL
    /\ canon' = RelaxedHeaderStep(canon)
    /\ RelaxedFrame

\* lines 928-933, at the end of the value
RelaxedTrim ==
    /\ canon.stage = "VALUE" /\ At(canon.s, canon.h) = NUL
    /\ canon' = [canon EXCEPT
                    !.t = (IF g_ascii_isspace(canon.t[Len(canon.t)])
                           THEN SubSeq(canon.t, 1, Len(canon.t) - 1)
                           ELSE canon.t) \o CRLF,
                    !.stage = "UPDATE"]
    /\ RelaxedFrame

\* lines 935-938, is_sign being FALSE
RelaxedUpdate ==
    /\ canon.stage = "UPDATE"
    /\ canon' = [canon EXCEPT !.fed = canon.t, !.stage = "RET"]
    /\ RelaxedFrame

NextRelaxed == RelaxedName \/ RelaxedLoop \/ RelaxedTrim \/ RelaxedUpdate

SpecRelaxed == InitRelaxed /\ [][NextRelaxed]_vars

\* the reference: the value cut into its runs of bytes that are neither WSP
\* nor part of a fold, the runs joined by one space each
IsWsp(ch) == ch \in {SP, HT}

InFold(v, i) ==
    \/ v[i] = CR /\ At(v, i + 1) = LF /\ IsWsp(At(v, i + 2))
    \/ v[i] = LF /\ i > 1 /\ v[i - 1] = CR /\ IsWsp(At(v, i + 1))

RECURSIVE RelaxedReferenceFrom(_, _, _)
RelaxedReferenceFrom(v, i, gap) ==
    IF i > Len(v) THEN <<>>
    ELSE IF IsWsp(v[i]) \/ InFold(v, i) THEN RelaxedReferenceFrom(v, i + 1, "WSP")
    ELSE (IF gap = "WSP" THEN <<SP>> ELSE <<>>) \o <<v[i]>>
         \o RelaxedReferenceFrom(v, i + 1, "BYTE")

RelaxedReference(header, header_name) ==
    LowerStr(header_name) \o <<":">> \o RelaxedReferenceFrom(header, 1, "START") \o CRLF

\* C23: for every header name and every stored value the bytes that
\* rspamd_dkim_canonize_header_relaxed feeds are the reference's: the name in
\* lower case, the colon, the value with its runs of WSP and its folds
\* collapsed to one space, no WSP after the colon or before the CR LF.
C23_RelaxedHeaderReference ==
    canon.stage = "RET" => canon.fed = RelaxedReference(task.header, task.header_name)

-----------------------------------------------------------------------------
(* rspamd_dkim_canonize_header_simple, lines 950-1014, over the string     *)
(* headers (task->raw_headers_str).                                        *)

\* lines 958-960; st is [s, p, c, state, found, fed, at]: fed the bytes that
\* reach headers_hash, at the places in s of the headers fed
SimpleHeaderStart(headers) ==
    [s |-> headers, p |-> 1, c |-> 1, state |-> 0, found |-> FALSE, fed |-> <<>>,
     at |-> <<>>]

\* one iteration of while (*p), lines 962-1011
SimpleHeaderStep(st, header_name, is_sign) ==
    LET ch == At(st.s, st.p)
        hlen == Len(header_name)
    IN IF st.state = 0
       THEN IF ch = ":"
            THEN IF st.p - st.c = hlen /\ StrCaseEq(Span(st.s, st.c, hlen), header_name)
                 THEN [st EXCEPT !.state = 2, !.p = st.p + 1]
                 ELSE [st EXCEPT !.state = 1, !.p = st.p + 1]
            ELSE [st EXCEPT !.p = st.p + 1]
       ELSE IF st.state = 1
       THEN IF ch = LF /\ ~g_ascii_isspace(At(st.s, st.p + 1))
            THEN [st EXCEPT !.state = 0, !.c = st.p + 1, !.p = st.p + 1]
            ELSE [st EXCEPT !.p = st.p + 1]
       ELSE IF ch = LF /\ (~g_ascii_isspace(At(st.s, st.p + 1))
                           \/ At(st.s, st.p + 1) = NUL)
            THEN [st EXCEPT
                    !.fed = st.fed \o
                        (IF ~is_sign THEN Span(st.s, st.c, st.p - st.c + 1)
                         ELSE rspamd_dkim_signature_update(st.s, st.c, st.p - st.c + 1)),
                    !.at = st.at \o <<st.c>>,
                    !.c = st.p + 1, !.state = 0, !.found = TRUE, !.p = st.p + 1]
            ELSE [st EXCEPT !.p = st.p + 1]

RECURSIVE SimpleHeaderSteps(_, _, _, _)
SimpleHeaderSteps(st, header_name, is_sign, n) ==
    IF n = 0 \/ st.p > Len(st.s) THEN st
    ELSE IF n = 1 THEN SimpleHeaderStep(st, header_name, is_sign)
    ELSE LET half == SimpleHeaderSteps(st, header_name, is_sign, n \div 2)
         IN IF half.p > Len(half.s) THEN half
            ELSE SimpleHeaderSteps(half, header_name, is_sign, n - (n \div 2))

\* the whole call: [found, fed, at]
rspamd_dkim_canonize_header_simple(headers, header_name, is_sign) ==
    SimpleHeaderSteps(SimpleHeaderStart(headers), header_name, is_sign, Len(headers))

-----------------------------------------------------------------------------
(* The task that rspamd_dkim_check reads: the message bytes (task->msg),   *)
(* the text of the header block (task->raw_headers_str) and the headers by *)
(* name (task->raw_headers).  A task is [msg, headers], headers the        *)
(* sequence of [name, value] in the order of the message.                  *)

\* the line of one header as it stands in the message
HeaderLine(h) == h.name \o <<":">> \o h.value \o CRLF

RECURSIVE raw_headers_str(_)
raw_headers_str(headers) ==
    IF headers = <<>> THEN <<>>
    ELSE HeaderLine(Head(headers)) \o raw_headers_str(Tail(headers))

\* g_hash_table_lookup (task->raw_headers, header_name): the places in the
\* message of the headers of that name, any case, in the order of the message
raw_headers_lookup(headers, header_name) ==
    LET idx == {i \in 1..Len(headers) : StrCaseEq(headers[i].name, header_name)}
        ord == [k \in 1..Cardinality(idx) |->
                    CHOOSE i \in idx : Cardinality({j \in idx : j < i}) = k - 1]
    IN ord

\* the header whose line begins at place c of raw_headers_str, 0 if none
HeaderAt(headers, c) ==
    LET at == {i \in 1..Len(headers) :
                 Len(raw_headers_str(SubSeq(headers, 1, i - 1))) + 1 = c}
    IN IF at = {} THEN 0 ELSE CHOOSE i \in at : TRUE

Chars_DKIM_SIGNHEADER ==
    <<"D","K","I","M","-","S","i","g","n","a","t","u","r","e">>

\* while (rh), lines 1027-1037: the bytes fed for the occurrences rh
RECURSIVE RelaxedOccurrences(_, _, _, _)
RelaxedOccurrences(headers, rh, header_name, is_sig) ==
    IF rh = <<>> THEN [fed |-> <<>>, occ |-> <<>>]
    ELSE LET one == rspamd_dkim_canonize_header_relaxed(headers[Head(rh)].value,
                                                        header_name, is_sig)
             rest == IF ~is_sig
                     THEN RelaxedOccurrences(headers, Tail(rh), header_name, is_sig)
                     ELSE [fed |-> <<>>, occ |-> <<>>]
         IN [fed |-> one \o rest.fed, occ |-> <<Head(rh)>> \o rest.occ]

\* lines 1016-1044: [found, fed, occ], fed the bytes that reach headers_hash
\* and occ the places in the message of the headers fed
rspamd_dkim_canonize_header(ctx, headers, header_name, is_sig) ==
    IF ctx.header_canon_type = "SIMPLE"
    THEN LET r == rspamd_dkim_canonize_header_simple(raw_headers_str(headers),
                                                     header_name, is_sig)
         IN [found |-> r.found, fed |-> r.fed,
             occ |-> [k \in 1..Len(r.at) |-> HeaderAt(headers, r.at[k])]]
    ELSE LET rh == raw_headers_lookup(headers, header_name)
         IN IF rh # <<>>
            THEN LET r == RelaxedOccurrences(headers, rh, header_name, is_sig)
                 IN [found |-> TRUE, fed |-> r.fed, occ |-> r.occ]
            ELSE [found |-> FALSE, fed |-> <<>>, occ |-> <<>>]

-----------------------------------------------------------------------------
(* rspamd_dkim_check, lines 1053-1191.                                     *)

\* the byte at p of the scan; the scan reads one byte past the message
ScanAt(msg, oob, p) == IF p >= 1 /\ p <= Len(msg) THEN msg[p] ELSE oob

\* lines 1056-1057, 1071-1073; st is [p, end, got_cr, got_crlf, got_lf, headers_end]
FindBodyStart(msg) ==
    [p |-> 1, end |-> Len(msg) + 1, got_cr |-> FALSE, got_crlf |-> FALSE,
     got_lf |-> FALSE, headers_end |-> 0]

\* one iteration of while (p <= end), lines 1075-1129
FindBodyStep(msg, oob, st) ==
    LET ch == ScanAt(msg, oob, st.p)
        prev == ScanAt(msg, oob, st.p - 1)
        brk == [st EXCEPT !.headers_end = st.p + 1]
        g == IF ch = LF
             THEN IF st.got_cr /\ prev = CR
                  THEN IF st.got_crlf THEN brk
                       ELSE [st EXCEPT !.got_crlf = TRUE, !.got_cr = FALSE]
                  ELSE IF st.got_cr /\ prev # CR
                  THEN IF prev = LF THEN [brk EXCEPT !.got_cr = FALSE]
                       ELSE [st EXCEPT !.got_cr = FALSE, !.got_lf = TRUE]
                  ELSE IF st.got_lf /\ prev = LF THEN brk
                  ELSE [st EXCEPT !.got_lf = TRUE]
             ELSE IF ch = CR
             THEN IF st.got_cr /\ prev = CR THEN brk
                  ELSE IF st.got_lf /\ prev = LF THEN brk
                  ELSE [st EXCEPT !.got_cr = TRUE]
             ELSE [st EXCEPT !.got_cr = FALSE, !.got_crlf = FALSE]
    IN IF g.headers_end # 0 THEN g ELSE [g EXCEPT !.p = st.p + 1]

RECURSIVE FindBodySteps(_, _, _, _)
FindBodySteps(msg, oob, st, n) ==
    IF n = 0 \/ st.headers_end # 0 \/ st.p > st.end THEN st
    ELSE IF n = 1 THEN FindBodyStep(msg, oob, st)
    ELSE LET half == FindBodySteps(msg, oob, st, n \div 2)
         IN IF half.headers_end # 0 \/ half.p > half.end THEN half
            ELSE FindBodySteps(msg, oob, half, n - (n \div 2))

\* lines 1070-1129: headers_end, 0 for NULL
FindBody(msg, oob) ==
    FindBodySteps(msg, oob, FindBodyStart(msg), Len(msg) + 1).headers_end

\* The width of a gint. The source's is 32 bits; the numbers of the model
\* checker end below 2^31, so the width is scaled down, and the messages are
\* kept shorter than 2^(GintBits - 1) bytes.
GintBits == 8

\* (gint) x: the low GintBits bits of x, read as a signed number
ToGint(x) ==
    LET m == x % (2^GintBits)
    IN IF m >= 2^(GintBits - 1) THEN m - 2^GintBits ELSE m

\* lines 1131-1143: the span handed to rspamd_dkim_canonize_body
BodySpan(ctx, msg, headers_end) ==
    LET end == Len(msg) + 1
    IN [msg |-> msg, start |-> headers_end,
        bend |-> IF headers_end # 0
                 THEN IF ctx.len = 0 \/ ToGint(ctx.len) > end - headers_end THEN end
                      ELSE headers_end + ctx.len
                 ELSE end,
        type |-> ctx.body_canon_type]

\* g_checksum_get_digest: a digest stands for the kind of the hash and the
\* bytes that were fed to it
g_checksum_get_digest(ck) == [type |-> ck.type, of |-> ck.fed]

g_checksum_update(ck, bytes) == [ck EXCEPT !.fed = ck.fed \o bytes]

BhMatches_Always(ctx) == TRUE

\* memcmp (ctx->bh, digest, dlen) == 0, lines 1160-1165
BhMatches(ctx) == ctx.bh = g_checksum_get_digest(ctx.body_hash)

RsaVerdict_Unchecked(r) == "CONTINUE"

\* lines 1185-1190: the value returned once RSA_verify has returned r
RsaVerdict(r) == IF r # 1 THEN "REJECT" ELSE "CONTINUE"

-----------------------------------------------------------------------------
(* The specification of rspamd_dkim_check: a context that                  *)
(* rspamd_create_dkim_context returned, a key, a task, and the call from   *)
(* its entry to its return.                                                *)

\* the most headers of a message besides the DKIM-Signature header
MaxHeaders == 2

HDR_FROM == [name |-> <<"F","r","o","m">>, value |-> <<SP, "a">>]
HDR_FROM_LOWER == [name |-> Chars_from, value |-> <<SP, "b", SP, SP, "c">>]
HDR_TO == [name |-> <<"T","o">>, value |-> <<SP, "d">>]
HDR_SIGNATURE == [name |-> Chars_DKIM_SIGNHEADER,
                  value |-> <<SP, "v", "=", "1", ";", SP, "b", "=", "A", "A", "A", "A">>]

\* the signature header with b= before its last tag, the value folded
HDR_SIGNATURE_FOLDED ==
    [name |-> Chars_DKIM_SIGNHEADER,
     value |-> <<SP, "v", "=", "1", ";", SP, "b", "=", "A", "A", CR, LF, SP, "A", "A", ";",
                 SP, "d", "=", "e", "x">>]

SignatureHeaders == {HDR_SIGNATURE, HDR_SIGNATURE_FOLDED}

HeaderPool == {HDR_FROM, HDR_FROM_LOWER, HDR_TO}

HeaderLists == UNION {[1..n -> HeaderPool] : n \in 0..MaxHeaders}

BODY_TEXT == <<"a", "b", CR, LF>>

\* what follows the header block: the empty line and a body, nothing, or an
\* empty line cut after its CR
MessageEndings == {CRLF, CRLF \o BODY_TEXT, <<>>, <<CR>>}

Tasks ==
    {[msg |-> raw_headers_str(<<sg>> \o hs) \o e,
      headers |-> <<sg>> \o hs] :
        sg \in SignatureHeaders, hs \in HeaderLists, e \in MessageEndings}

\* the byte that follows the message in memory
OobBytes == {NUL, LF}

Chars_to == <<"t","o">>

HeaderNameLists ==
    {<<Chars_from>>, <<Chars_from, Chars_from>>, <<Chars_from, Chars_to>>,
     <<Chars_to, Chars_from>>}

\* the contexts: what rspamd_create_dkim_context sets of the fields that
\* rspamd_dkim_check reads
CheckContexts ==
    {[NewContext EXCEPT !.hlist = hl, !.header_canon_type = hc,
                        !.body_canon_type = bc, !.sig_alg = "RSASHA1",
                        !.bh = [type |-> "SHA1", of |-> bh],
                        !.bhlen = SHA1_DIGEST_LEN, !.ver = 1,
                        !.domain = <<<<"e","x">>>>, !.selector = <<<<"k">>>>,
                        !.dns_key = <<DnsKeyName(<<"k">>, <<"e","x">>)>>,
                        !.b = <<"SIGNATURE">>, !.blen = 1,
                        !.body_hash = g_checksum_new("RSASHA1"),
                        !.headers_hash = g_checksum_new("RSASHA1")] :
        hl \in HeaderNameLists, hc \in CanonTypes, bc \in CanonTypes,
        bh \in {BODY_TEXT, CRLF}}

\* what RSA_verify returns for the signature, the digest and the key of the call
RsaResults == {1, 0}

InitCheck ==
    /\ task \in Tasks
    /\ \E ctx \in CheckContexts, r \in RsaResults :
          chk = [ctx |-> ctx, key |-> [key_rsa |-> "RSA", verifies |-> r],
                 stage |-> "FIND", headers_end |-> 0, cur |-> 1, feeds |-> <<>>,
                 rsa |-> <<>>, res |-> "NONE"]
    /\ sig = Idle /\ create = Idle /\ txt = Idle /\ keycb = Idle
    /\ body = Idle /\ canon = Idle /\ elide = Idle

CheckFrame == UNCHANGED <<sig, create, txt, keycb, body, canon, elide, task>>

\* lines 1070-1129
CheckFindBody ==
    /\ chk.stage = "FIND"
    /\ \E oob \in OobBytes :
          chk' = [chk EXCEPT !.headers_end = FindBody(task.msg, oob), !.stage = "BODY"]
    /\ CheckFrame

\* What rspamd_dkim_canonize_body does with a span that ends after the end
\* of the message: it reads the memory behind the message, so the call
\* faults, or it feeds the body and what that memory holds.
CanonizeBodyBeyond(b) ==
    {[stage |-> "FAULT", end |-> b.bend, fed |-> <<>>, ret |-> "NONE"],
     [stage |-> "DONE", end |-> b.bend,
      fed |-> Span(b.msg, b.start, Len(b.msg) + 1 - b.start) \o <<NUL, OOB>>,
      ret |-> "TRUE"]}

\* the frames the call of line 1144 can end in
CanonizeBodyOf(b) ==
    IF b.bend > Len(b.msg) + 1 THEN CanonizeBodyBeyond(b)
    ELSE rspamd_dkim_canonize_body(b)

\* lines 1131-1146
CheckCanonizeBody ==
    /\ chk.stage = "BODY"
    /\ \E f \in CanonizeBodyOf(BodySpan(chk.ctx, task.msg, chk.headers_end)) :
          LET fed == [chk EXCEPT
                        !.ctx.body_hash = g_checksum_update(chk.ctx.body_hash, f.fed),
                        !.feeds = chk.feeds \o
                            <<[hash |-> "body", entry |-> 0, occ |-> <<>>, bytes |-> f.fed]>>]
          IN chk' = IF f.stage = "FAULT" THEN [chk EXCEPT !.stage = "FAULT"]
                    ELSE IF f.ret = "FALSE"
                    THEN [fed EXCEPT !.stage = "RET", !.res = "RECORD_ERROR"]
                    ELSE [fed EXCEPT !.stage = "HEADERS"]
    /\ CheckFrame

\* one iteration of while (cur), lines 1148-1155
CheckCanonizeHeader ==
    /\ chk.stage = "HEADERS" /\ chk.cur <= Len(chk.ctx.hlist)
    /\ LET r == rspamd_dkim_canonize_header(chk.ctx, task.headers,
                                            chk.ctx.hlist[chk.cur], FALSE)
           fed == [chk EXCEPT
                     !.ctx.headers_hash = g_checksum_update(chk.ctx.headers_hash, r.fed),
                     !.feeds = chk.feeds \o
                         <<[hash |-> "headers", entry |-> chk.cur, occ |-> r.occ,
                            bytes |-> r.fed]>>]
       IN chk' = IF ~r.found
                 THEN [fed EXCEPT !.stage = "RET", !.res = "RECORD_ERROR"]
                 ELSE [fed EXCEPT !.cur = chk.cur + 1]
    /\ CheckFrame

\* line 1158
CheckCanonizeSignature ==
    /\ chk.stage = "HEADERS" /\ chk.cur > Len(chk.ctx.hlist)
    /\ LET r == rspamd_dkim_canonize_header(chk.ctx, task.headers,
                                            Chars_DKIM_SIGNHEADER, TRUE)
       IN chk' = [chk EXCEPT
                    !.ctx.headers_hash = g_checksum_update(chk.ctx.headers_hash, r.fed),
                    !.feeds = chk.feeds \o
                        <<[hash |-> "headers", entry |-> chk.cur, occ |-> r.occ,
                           bytes |-> r.fed]>>,
                    !.stage = "BH"]
    /\ CheckFrame

\* lines 1160-1168
CheckBodyHash ==
    /\ chk.stage = "BH"
    /\ chk' = IF ~BhMatches(chk.ctx)
              THEN [chk EXCEPT !.stage = "RET", !.res = "REJECT"]
              ELSE [chk EXCEPT !.stage = "RSA"]
    /\ CheckFrame

\* lines 1170-1190
CheckRsaVerify ==
    /\ chk.stage = "RSA"
    /\ chk' = [chk EXCEPT
                 !.rsa = <<[digest |-> g_checksum_get_digest(chk.ctx.headers_hash),
                            b |-> chk.ctx.b, key_rsa |-> chk.key.key_rsa,
                            result |-> chk.key.verifies]>>,
                 !.stage = "RET",
                 !.res = RsaVerdict(chk.key.verifies)]
    /\ CheckFrame

NextCheck ==
    \/ CheckFindBody
    \/ CheckCanonizeBody
    \/ CheckCanonizeHeader
    \/ CheckCanonizeSignature
    \/ CheckBodyHash
    \/ CheckRsaVerify

SpecCheck == InitCheck /\ [][NextCheck]_vars

\* the call has returned
CheckReturned == chk.stage = "RET"

\* the message has a header of that name
HasHeader(name) == \E i \in 1..Len(task.headers) : StrCaseEq(task.headers[i].name, name)

AllListedPresent == \A i \in 1..Len(chk.ctx.hlist) : HasHeader(chk.ctx.hlist[i])

BodyDigestEqualsBh == g_checksum_get_digest(chk.ctx.body_hash) = chk.ctx.bh

\* RSA_verify was called on the digest of the headers hash, with the
\* signature of the context and the key, and returned 1
RsaSucceeded ==
    chk.rsa = <<[digest |-> g_checksum_get_digest(chk.ctx.headers_hash),
                 b |-> chk.ctx.b, key_rsa |-> chk.key.key_rsa, result |-> 1]>>

\* C1: when rspamd_dkim_check returns CONTINUE, the digest of the
\* canonicalized body equals ctx.bh, every name of ctx.hlist has a header in
\* the message, and RSA_verify of ctx.b over the digest of the headers hash
\* under the key returned success.
C1_NoFalseAccept ==
    chk.res = "CONTINUE" =>
        BodyDigestEqualsBh /\ AllListedPresent /\ RsaSucceeded

C1_Witness ==
    /\ CheckReturned /\ chk.res = "CONTINUE"
    /\ Len(chk.ctx.hlist) = 2 /\ chk.ctx.bh.of = BODY_TEXT

EntryRank(hlist, i) ==
    Cardinality({j \in 1..i : StrCaseEq(hlist[j], hlist[i])})

\* the occurrence that entry i of the list selects, counted from the bottom
\* of the message
SelectedOccurrence(hlist, i) ==
    LET rh == raw_headers_lookup(task.headers, hlist[i])
        k == EntryRank(hlist, i)
    IN IF k <= Len(rh) THEN <<rh[Len(rh) + 1 - k]>> ELSE <<>>

\* C10: every entry of the h= list feeds exactly the occurrence of its
\* header that it selects from the bottom of the message, the i-th entry of
\* a name the i-th occurrence from the bottom, and no other occurrence.
C10_SignedHeaderSelection ==
    \A n \in 1..Len(chk.feeds) :
        LET f == chk.feeds[n]
        IN (f.hash = "headers" /\ f.entry <= Len(chk.ctx.hlist)) =>
              f.occ = SelectedOccurrence(chk.ctx.hlist, f.entry)

\* the bytes that the call has fed to the hash named h, in the order of the
\* updates
FedTo(h) ==
    LET fs == SelectSeq(chk.feeds, LAMBDA f : f.hash = h)
        RECURSIVE cat(_)
        cat(q) == IF q = <<>> THEN <<>> ELSE Head(q).bytes \o cat(Tail(q))
    IN cat(fs)

\* the verdicts that the steps after the body give, whichever of the header
\* step and the bh comparison is taken to come first
VerdictsOfSteps ==
    IF AllListedPresent /\ BodyDigestEqualsBh
    THEN {IF chk.key.verifies # 1 THEN "REJECT" ELSE "CONTINUE"}
    ELSE (IF AllListedPresent THEN {} ELSE {"RECORD_ERROR"})
         \cup (IF BodyDigestEqualsBh THEN {} ELSE {"REJECT"})

\* C21: for a message without a header/body terminator the body is taken to
\* be empty: exactly CR LF is fed to the body hash, and the call goes on with
\* the listed headers, the bh comparison and the RSA step, so the verdict is
\* the one that those steps give.
C21_NoTerminatorEmptyBody ==
    (CheckReturned /\ chk.headers_end = 0) =>
        /\ FedTo("body") = CRLF
        /\ chk.res \in VerdictsOfSteps

\* the updates of the headers hash, in their order
HeaderFeeds == SelectSeq(chk.feeds, LAMBDA f : f.hash = "headers")

\* the bytes begin with the header name name and ':', in any letter case
FeedsHeaderNamed(bytes, name) ==
    /\ Len(bytes) > Len(name)
    /\ StrCaseEq(SubSeq(bytes, 1, Len(name)), name)
    /\ bytes[Len(name) + 1] = ":"

\* line 1158 has been passed
SignatureFed == chk.stage \in {"BH", "RSA"} \/ (CheckReturned /\ Len(chk.rsa) = 1)
                \/ (CheckReturned /\ chk.res = "REJECT")

\* C22: in a call of rspamd_dkim_check every update of the body hash comes
\* before the first update of the headers hash; the headers named in h= are
\* fed in the order of the list; and the DKIM-Signature header is fed last,
\* after every listed header, its bytes not followed by CR LF.
C22_FeedOrdering ==
    /\ \A i \in 1..Len(chk.feeds) : \A j \in (i + 1)..Len(chk.feeds) :
          chk.feeds[i].hash = "headers" => chk.feeds[j].hash = "headers"
    /\ \A k \in 1..Len(HeaderFeeds) :
          /\ HeaderFeeds[k].entry = k
          /\ k <= Len(chk.ctx.hlist) /\ HeaderFeeds[k].bytes # <<>> =>
                FeedsHeaderNamed(HeaderFeeds[k].bytes, chk.ctx.hlist[k])
    /\ SignatureFed =>
          LET last == HeaderFeeds[Len(HeaderFeeds)]
          IN /\ Len(HeaderFeeds) = Len(chk.ctx.hlist) + 1
             /\ FeedsHeaderNamed(last.bytes, Chars_DKIM_SIGNHEADER)
             /\ last.bytes[Len(last.bytes)] \notin {CR, LF}
             /\ FedTo("headers")[Len(FedTo("headers"))] \notin {CR, LF}

\* a call that has fed the body, two listed headers and the folded signature
C22_Witness ==
    /\ CheckReturned /\ chk.res = "CONTINUE"
    /\ Len(chk.ctx.hlist) = 2 /\ Len(HeaderFeeds) = 3
    /\ task.headers[1] = HDR_SIGNATURE_FOLDED
    /\ chk.feeds[1].hash = "body" /\ chk.feeds[1].bytes = BODY_TEXT

-----------------------------------------------------------------------------
(* rspamd_dkim_check on contexts with a body length l= (ctx.len), over     *)
(* messages of one From header and any short body.                         *)

MaxLimitBody == 4

LimitBodies == UNION {[1..n -> BodyBytes] : n \in 0..MaxLimitBody}

LimitTasks ==
    {[msg |-> raw_headers_str(<<HDR_SIGNATURE, HDR_FROM>>) \o CRLF \o B,
      headers |-> <<HDR_SIGNATURE, HDR_FROM>>] : B \in LimitBodies}

\* the values of l=: none, within the body, beyond it, and beyond what a
\* gint holds
LimitLens == {0, 1, 2, 3, 4, 5, 2^(GintBits - 1), 2^GintBits + 2}

LimitContexts ==
    {[ctx EXCEPT !.len = l] :
        ctx \in {c \in CheckContexts : /\ c.hlist = <<Chars_from>>
                                       /\ c.header_canon_type = "SIMPLE"},
        l \in LimitLens}

InitLimit ==
    /\ task \in LimitTasks
    /\ \E ctx \in LimitContexts, r \in RsaResults :
          chk = [ctx |-> ctx, key |-> [key_rsa |-> "RSA", verifies |-> r],
                 stage |-> "FIND", headers_end |-> 0, cur |-> 1, feeds |-> <<>>,
                 rsa |-> <<>>, res |-> "NONE"]
    /\ sig = Idle /\ create = Idle /\ txt = Idle /\ keycb = Idle
    /\ body = Idle /\ canon = Idle /\ elide = Idle

SpecLimit == InitLimit /\ [][NextCheck]_vars

\* line 1144 has been passed
BodyCanonized == chk.stage \notin {"FIND", "BODY"}

\* rest_len: the bytes of the message from headers_end on
RestLen == Len(task.msg) + 1 - chk.headers_end

\* the bytes the body canonicalizer feeds for the message m as a whole
WholeBodyFeeds(m) ==
    {f.fed : f \in rspamd_dkim_canonize_body(
                      [msg |-> m, start |-> chk.headers_end, bend |-> Len(m) + 1,
                       type |-> chk.ctx.body_canon_type])}

\* C24: with 0 < l <= rest_len the bytes fed to the body hash are those of
\* the message cut after its first l body bytes, so nothing behind
\* headers_end + l has a part in them; with l absent, zero or greater than
\* rest_len the whole body up to the end of the message is canonicalized.
C24_BodyLengthLimit ==
    BodyCanonized /\ chk.headers_end # 0 =>
        /\ chk.stage # "FAULT"
        /\ Len(chk.feeds) >= 1
        /\ IF 0 < chk.ctx.len /\ chk.ctx.len <= RestLen
           THEN chk.feeds[1].bytes \in
                    WholeBodyFeeds(SubSeq(task.msg, 1, chk.headers_end + chk.ctx.len - 1))
           ELSE chk.feeds[1].bytes \in WholeBodyFeeds(task.msg)

-----------------------------------------------------------------------------
(* The scan for the end of the headers, lines 1070-1129, on any message:   *)
(* task is the message and the byte that follows it in memory, chk the     *)
(* frame of the loop.                                                      *)

\* the longest message of the scan
MaxMsg == 5

ScanBytes == {CR, LF, "a"}

ScanMessages == UNION {[1..n -> ScanBytes] : n \in 0..MaxMsg}

InitScan ==
    /\ \E m \in ScanMessages, oob \in OobBytes : task = [msg |-> m, oob |-> oob]
    /\ chk = FindBodyStart(task.msg)
    /\ sig = Idle /\ create = Idle /\ txt = Idle /\ keycb = Idle
    /\ body = Idle /\ canon = Idle /\ elide = Idle

ScanFrame == UNCHANGED <<sig, create, txt, keycb, body, canon, elide, task>>

\* while (p <= end) and no break
Scanning == chk.headers_end = 0 /\ chk.p <= chk.end

\* line 1077: *p == '\n'
ScanLf ==
    /\ Scanning /\ ScanAt(task.msg, task.oob, chk.p) = LF
    /\ chk' = FindBodyStep(task.msg, task.oob, chk)
    /\ ScanFrame

\* line 1109: *p == '\r'
ScanCr ==
    /\ Scanning /\ ScanAt(task.msg, task.oob, chk.p) = CR
    /\ chk' = FindBodyStep(task.msg, task.oob, chk)
    /\ ScanFrame

\* line 1124: any other byte
ScanOther ==
    /\ Scanning /\ ScanAt(task.msg, task.oob, chk.p) \notin {CR, LF}
    /\ chk' = FindBodyStep(task.msg, task.oob, chk)
    /\ ScanFrame

NextScan == ScanLf \/ ScanCr \/ ScanOther

SpecScan == InitScan /\ [][NextScan]_vars

\* the terminator t stands at i in msg
OccursAt(msg, i, t) ==
    i + Len(t) - 1 <= Len(msg) /\ SubSeq(msg, i, i + Len(t) - 1) = t

\* the places after the occurrences of the terminators in msg, each with the
\* place where the occurrence begins
Boundaries(msg) ==
    {[from |-> o[1], after |-> o[1] + Len(o[2])] :
        o \in {q \in (1..Len(msg)) \X HeaderTerminators : OccursAt(msg, q[1], q[2])}}

\* the place after the first occurrence, the first being the one that begins
\* first or the one that ends first; 0 when there is none
FirstBoundaries(msg) ==
    LET bs == Boundaries(msg)
    IN IF bs = {} THEN {0}
       ELSE {b.after : b \in {c \in bs : (\A d \in bs : c.from <= d.from)
                                         \/ (\A d \in bs : c.after <= d.after)}}

\* C20: headers_end is the place right after the first occurrence in the
\* message of one of \r\n\r\n, \n\n, \r\r and \n\r, and no boundary is found
\* when none of them occurs.
C20_HeaderBodyBoundary ==
    ~Scanning => chk.headers_end \in FirstBoundaries(task.msg)

-----------------------------------------------------------------------------
(* The specification of the signature header: a DKIM-Signature header      *)
(* with the value s1 of b= and the same header with the value s2, each     *)
(* given to rspamd_create_dkim_context and to rspamd_dkim_canonize_header  *)
(* as rspamd_dkim_check line 1158 calls it.                                *)

\* base64 texts of one, two and six bytes
BValues ==
    {<<"A","A","=","=">>, <<"A","A","b","=">>, <<"B","B","B","B","B","B","B","B">>}

\* what stands between the tag name b and its value
EqLayouts == {<<"=">>, <<SP, "=">>, <<"=", SP>>, <<SP, "=", SP>>}

BPlaces == {"first", "middle", "last"}

\* the value of the header: the required tags, b at place with layout eq and
\* value v; a b that is the last tag has no ';' after it
SigValue(place, eq, v) ==
    LET others == ReqItems(TagSet \ {"b"}, "RSASHA1")
        item == <<"b">> \o eq \o v
    IN <<SP>> \o
       (IF place = "first" THEN Join(<<item>> \o others, ItemSep) \o <<";">>
        ELSE IF place = "middle"
        THEN Join(SubSeq(others, 1, 3) \o <<item>> \o SubSeq(others, 4, Len(others)),
                  ItemSep) \o <<";">>
        ELSE Join(others \o <<item>>, ItemSep))

ElideInputs ==
    [place : BPlaces, eq : EqLayouts, type : CanonTypes,
     s : {q \in [1..2 -> BValues] : q[1] # q[2]}]

\* the headers of the message that carries the k-th of the two signatures
ElideHeaders(e, k) ==
    <<[name |-> Chars_DKIM_SIGNHEADER, value |-> SigValue(e.place, e.eq, e.s[k])],
      HDR_FROM>>

InitElide ==
    /\ \E e \in ElideInputs :
          elide = [in |-> e, step |-> 1, accepted |-> <<>>, fed |-> <<>>]
    /\ sig = Idle /\ create = Idle /\ txt = Idle /\ keycb = Idle
    /\ body = Idle /\ canon = Idle /\ task = Idle /\ chk = Idle

ElideFrame == UNCHANGED <<sig, create, txt, keycb, body, canon, task, chk>>

\* rspamd_create_dkim_context on the value of the header
ElideParse ==
    /\ elide.step \in {1, 2}
    /\ \E now \in Clock :
          LET f == rspamd_create_dkim_context(
                       SigValue(elide.in.place, elide.in.eq, elide.in.s[elide.step]), now)
          IN elide' = [elide EXCEPT !.accepted = elide.accepted \o <<f.ret = "CTX">>,
                                    !.step = elide.step + 1]
    /\ ElideFrame

\* rspamd_dkim_canonize_header (ctx, task, DKIM_SIGNHEADER, TRUE)
ElideFeed ==
    /\ elide.step \in {3, 4}
    /\ LET r == rspamd_dkim_canonize_header(
                    [header_canon_type |-> elide.in.type],
                    ElideHeaders(elide.in, elide.step - 2), Chars_DKIM_SIGNHEADER, TRUE)
       IN elide' = [elide EXCEPT !.fed = elide.fed \o <<r.fed>>,
                                 !.step = elide.step + 1]
    /\ ElideFrame

NextElide == ElideParse \/ ElideFeed

SpecElide == InitElide /\ [][NextElide]_vars

\* C6: when the tag parser accepts the DKIM-Signature header with the b=
\* value s1 and with the b= value s2, the bytes fed to the headers hash for
\* the signature header are the same for both, in simple and in relaxed
\* mode, wherever b= stands and whatever white space surrounds its '='.
C6_SignatureElision ==
    (elide.step = 5 /\ elide.accepted[1] /\ elide.accepted[2]) =>
        elide.fed[1] = elide.fed[2]

====
